---- MODULE Spec2Model ----
(***************************************************************************)
(* Extraction core of the exam-prep application.                           *)
(*                                                                         *)
(*   - parseMCQResponse / extractOption: a model completion is split at    *)
(*     its "Question N:" markers and every segment becomes a record or is  *)
(*     dropped.                                                            *)
(*   - extractMainContent / parseHtmlToBlocks: an HTML document is         *)
(*     narrowed to its article body and turned into typed blocks.          *)
(*                                                                         *)
(* JavaScript strings are TLA+ strings, read character by character;       *)
(* every regular expression of the source is an operator that finds the    *)
(* match the backtracking matcher finds (leftmost start, greedy            *)
(* quantifiers giving characters back one at a time, lazy quantifiers      *)
(* growing one character at a time).                                       *)
(***************************************************************************)
EXTENDS Integers, Sequences, FiniteSets, TLC

VARIABLES
    entries,    \* the fields the input text was written from (not read by the parser)
    content,    \* parseMCQResponse: its argument
    parts,      \* parseMCQResponse: content.split(...)
    i,          \* parseMCQResponse: the loop index, as in the source (0-based)
    mcqs,       \* parseMCQResponse: the records pushed so far
    kept,       \* history: for each record of mcqs, the number of its segment
    pc,         \* parseMCQResponse: "start", "loop" or "done"
    page,       \* the pieces the document was written from (not read by the code)
    html,       \* smartScrape: the fetched document
    mainContent,\* extractMainContent: its local content, then its result
    rp,         \* extractMainContent: how many of removePatterns have been applied
    cleanHtml,  \* parseHtmlToBlocks: its local cleanHtml
    ph,         \* parseHtmlToBlocks: how many of its four loops have run
    blocks,     \* parseHtmlToBlocks: the blocks pushed so far
    hpc,        \* the HTML path: "idle", "remove", "clean", "extract", "done" or "returned"
    response,   \* generateMCQsWithAI, smartScrape: what fetch has answered
    outcome,    \* generateMCQsWithAI: None while it runs, then what it returned or threw
    stage,      \* PDFGeneratorScreen: its state stage
    errorMessage, \* PDFGeneratorScreen: its state errorMessage
    progress,   \* PDFGeneratorScreen: its state progress
    statusMessage, \* PDFGeneratorScreen: its state statusMessage, without its pictograph
    screenMcqs, \* the state mcqs of the screen that runs
    isLoading,  \* AIMCQGeneratorScreen: its state isLoading
    error,      \* AIMCQGeneratorScreen: its state error
    article,    \* smartScrape: None while it runs, then the ScrapedArticle it returned
    screen,     \* which of the components is mounted, "none" when none is
    runs,       \* PDFGeneratorScreen: for each call of startProcess, the await it is at
    selectedAnswers, \* the state selectedAnswers of the screen that runs
    showResults, \* the state showResults of the screen that runs
    call,       \* None, or the function of the services that is called and its arguments
    truncatedContent, \* None, then the text the function called has put in its prompt
    returned,   \* history: of each call that has returned, its argument and its result
    table,      \* mobile articles route: the rows of the table articles
    conditions, \* GET: its local conditions
    publishedArticles, \* GET: None, then the rows the page query has given
    reply,      \* GET: None while it runs, then the response it returns
    gpc         \* GET: "idle", "page query", "count query" or "replied"

mcqVars == <<entries, content, parts, i, mcqs, kept, pc>>
htmlVars == <<page, html, mainContent, rp, cleanHtml, ph, blocks, hpc>>
uiVars == <<stage, errorMessage, progress, statusMessage, screenMcqs, isLoading, error>>
answerVars == <<selectedAnswers, showResults>>
screenVars == <<screen, runs, answerVars>>
routeVars == <<table, conditions, publishedArticles, reply, gpc>>
callVars == <<call, truncatedContent, returned, routeVars>>
callerVars == <<response, outcome, uiVars, article, screenVars, callVars>>
vars == <<entries, content, parts, i, mcqs, kept, pc,
          page, html, mainContent, rp, cleanHtml, ph, blocks, hpc,
          response, outcome, stage, errorMessage, progress, statusMessage, screenMcqs,
          isLoading, error, article, screen, runs, selectedAnswers, showResults,
          call, truncatedContent, returned,
          table, conditions, publishedArticles, reply, gpc>>

(***************************************************************************)
(* Characters and strings                                                  *)
(***************************************************************************)
None == <<>>
Some(x) == <<x>>

\* x || fallback, for strings
OrElse(x, fallback) == IF x = "" THEN fallback ELSE x

\* no call has been made yet
\* no request is at the route
RouteAtRest ==
    /\ table = {}
    /\ conditions = <<>>
    /\ publishedArticles = <<>>
    /\ reply = <<>>
    /\ gpc = "idle"

Unstarted ==
    /\ response = None
    /\ outcome = None
    /\ stage = "idle"
    /\ errorMessage = ""
    /\ progress = 0
    /\ statusMessage = ""
    /\ screenMcqs = <<>>
    /\ isLoading = FALSE
    /\ error = ""
    /\ article = None
    /\ runs = <<>>
    /\ selectedAnswers = <<>>
    /\ showResults = <<>>
    /\ call = None
    /\ truncatedContent = None
    /\ returned = {}
    /\ RouteAtRest

\* none of the callers is there
NoCaller == screen = "none" /\ Unstarted

Ch(s, k) == IF k >= 1 /\ k <= Len(s) THEN SubSeq(s, k, k) ELSE ""

Min(S) == CHOOSE x \in S : \A y \in S : x <= y
Max(S) == CHOOSE x \in S : \A y \in S : x >= y

\* \s
IsWs(c) == c \in {" ", "\n", "\t", "\r"}
\* what "." does not match
IsLineTerminator(c) == c \in {"\n", "\r"}
\* \d
IsDigit(c) == c \in {"0", "1", "2", "3", "4", "5", "6", "7", "8", "9"}

LowerOf ==
    ("A" :> "a") @@ ("B" :> "b") @@ ("C" :> "c") @@ ("D" :> "d") @@ ("E" :> "e") @@
    ("F" :> "f") @@ ("G" :> "g") @@ ("H" :> "h") @@ ("I" :> "i") @@ ("J" :> "j") @@
    ("K" :> "k") @@ ("L" :> "l") @@ ("M" :> "m") @@ ("N" :> "n") @@ ("O" :> "o") @@
    ("P" :> "p") @@ ("Q" :> "q") @@ ("R" :> "r") @@ ("S" :> "s") @@ ("T" :> "t") @@
    ("U" :> "u") @@ ("V" :> "v") @@ ("W" :> "w") @@ ("X" :> "x") @@ ("Y" :> "y") @@
    ("Z" :> "z")

Lower(c) == IF c \in DOMAIN LowerOf THEN LowerOf[c] ELSE c
\* String.prototype.toUpperCase on one letter
toUpperCase(c) ==
    IF \E u \in DOMAIN LowerOf : LowerOf[u] = c
    THEN CHOOSE u \in DOMAIN LowerOf : LowerOf[u] = c
    ELSE c

\* the literal lit occurs at index k of s (flag i: case-insensitive)
MatchCI(s, k, lit) ==
    /\ k >= 1
    /\ k + Len(lit) - 1 <= Len(s)
    /\ \A n \in 1..Len(lit) : Lower(Ch(s, k + n - 1)) = Lower(Ch(lit, n))

\* greedy \s* from index k: the index of the first character it does not take
RECURSIVE SkipWs(_, _)
SkipWs(s, k) == IF IsWs(Ch(s, k)) THEN SkipWs(s, k + 1) ELSE k

\* greedy \d* from index k
RECURSIVE SkipDigits(_, _)
SkipDigits(s, k) == IF IsDigit(Ch(s, k)) THEN SkipDigits(s, k + 1) ELSE k

\* greedy \s*[:\s]* from index k
RECURSIVE SkipSeparators(_, _)
SkipSeparators(s, k) ==
    IF IsWs(Ch(s, k)) \/ Ch(s, k) = ":" THEN SkipSeparators(s, k + 1) ELSE k

\* String.prototype.trim
RECURSIVE TrimEnd(_)
TrimEnd(s) ==
    IF Len(s) > 0 /\ IsWs(Ch(s, Len(s))) THEN TrimEnd(SubSeq(s, 1, Len(s) - 1)) ELSE s

Trim(s) ==
    LET k == SkipWs(s, 1)
    IN  IF k > Len(s) THEN "" ELSE TrimEnd(SubSeq(s, k, Len(s)))

\* String.prototype.split('\n')
RECURSIVE SplitLinesFrom(_, _)
SplitLinesFrom(s, q) ==
    LET hits == {k \in q..Len(s) : Ch(s, k) = "\n"}
        k == Min(hits)
    IN  IF hits = {} THEN <<SubSeq(s, q, Len(s))>>
        ELSE <<SubSeq(s, q, k - 1)>> \o SplitLinesFrom(s, k + 1)

SplitLines(s) == SplitLinesFrom(s, 1)

\* parseInt on a string of decimal digits
DigitValue ==
    ("0" :> 0) @@ ("1" :> 1) @@ ("2" :> 2) @@ ("3" :> 3) @@ ("4" :> 4) @@
    ("5" :> 5) @@ ("6" :> 6) @@ ("7" :> 7) @@ ("8" :> 8) @@ ("9" :> 9)

RECURSIVE parseInt(_)
parseInt(s) ==
    IF Len(s) = 0 THEN 0
    ELSE 10 * parseInt(SubSeq(s, 1, Len(s) - 1)) + DigitValue[Ch(s, Len(s))]

(***************************************************************************)
(* parseMCQResponse: the regular expressions                               *)
(***************************************************************************)
\* the body shorter than this is skipped
MinContentLength == 50
\* the question shorter than this is skipped
MinQuestionLength == 10

\* /Question\s+(\d+)\s*:/gi tried at index k: None, or the digits and the
\* index after the colon
MarkerAt(s, k) ==
    LET j1 == k + 8
        j2 == SkipWs(s, j1)
        j3 == SkipDigits(s, j2)
        j4 == SkipWs(s, j3)
    IN  IF MatchCI(s, k, "Question") /\ j2 > j1 /\ j3 > j2 /\ Ch(s, j4) = ":"
        THEN Some([num |-> SubSeq(s, j2, j3 - 1), next |-> j4 + 1])
        ELSE None

\* content.split(/Question\s+(\d+)\s*:/gi): text, digits, text, digits, text ...
RECURSIVE SplitFrom(_, _)
SplitFrom(s, q) ==
    LET hits == {k \in q..Len(s) : MarkerAt(s, k) # None}
        k == Min(hits)
        m == MarkerAt(s, k)[1]
    IN  IF hits = {} THEN <<SubSeq(s, q, Len(s))>>
        ELSE <<SubSeq(s, q, k - 1), m.num>> \o SplitFrom(s, m.next)

SplitQuestions(s) == SplitFrom(s, 1)

\* the lookahead (?=\n\s*X\.) at index e
LineStartsWith(s, e, x) ==
    Ch(s, e) = "\n" /\ MatchCI(s, SkipWs(s, e + 1), x \o ".")

\* questionContent.match(/^([\s\S]+?)(?=\n\s*A\.)/i): None or the capture
questionMatch(s) ==
    LET ends == {e \in 2..Len(s) : LineStartsWith(s, e, "A")}
    IN  IF ends = {} THEN None ELSE Some(SubSeq(s, 1, Min(ends) - 1))

\* first pattern of extractOption tried at index k:
\* letter\.\s*([\s\S]+?)(?=\n\s*nextLetter\.)
\* \s* is greedy and gives characters back one at a time, so of the starts
\* of the capture that lead to a match the rightmost is the one found.
OptionToNextAt(s, k, letter, nextLetter) ==
    LET j == k + 2
        g == SkipWs(s, j)
        endOf(s0) == {e \in (s0 + 1)..Len(s) : LineStartsWith(s, e, nextLetter)}
        starts == {s0 \in j..g : s0 <= Len(s) /\ endOf(s0) # {}}
    IN  IF MatchCI(s, k, letter \o ".") /\ starts # {}
        THEN Some(SubSeq(s, Max(starts), Min(endOf(Max(starts))) - 1))
        ELSE None

\* second pattern of extractOption tried at index k: letter\.\s*(.+?)(?=\n)
OptionToEndOfLineAt(s, k, letter) ==
    LET j == k + 2
        g == SkipWs(s, j)
        endOf(s0) == {e \in (s0 + 1)..Len(s) :
                        /\ Ch(s, e) = "\n"
                        /\ \A n \in s0..(e - 1) : ~IsLineTerminator(Ch(s, n))}
        starts == {s0 \in j..g : s0 <= Len(s) /\ endOf(s0) # {}}
    IN  IF MatchCI(s, k, letter \o ".") /\ starts # {}
        THEN Some(SubSeq(s, Max(starts), Min(endOf(Max(starts))) - 1))
        ELSE None

\* line.replace(new RegExp(`^${letter}\\.\\s*`, 'i'), '')
StripOptionPrefix(line, letter) ==
    IF MatchCI(line, 1, letter \o ".")
    THEN SubSeq(line, SkipWs(line, 3), Len(line))
    ELSE line

extractOption(s, letter, nextLetter) ==
    LET hits1 == {k \in 1..Len(s) : OptionToNextAt(s, k, letter, nextLetter) # None}
        hits2 == {k \in 1..Len(s) : OptionToEndOfLineAt(s, k, letter) # None}
        \* content.match(pattern): the match at the leftmost index
        m1 == IF hits1 = {} THEN None ELSE OptionToNextAt(s, Min(hits1), letter, nextLetter)
        m2 == IF hits2 = {} THEN None ELSE OptionToEndOfLineAt(s, Min(hits2), letter)
        lines == SplitLines(s)
        found == {n \in 1..Len(lines) : MatchCI(Trim(lines[n]), 1, letter \o ".")}
    IN  IF m1 # None THEN Trim(m1[1])
        ELSE IF m2 # None THEN Trim(m2[1])
        ELSE IF found # {} THEN Trim(StripOptionPrefix(lines[Min(found)], letter))
        ELSE ""

\* /Correct\s*Answer\s*[:\s]*([A-D])/i tried at index k
CorrectAnswerAt(s, k) ==
    LET j1 == SkipWs(s, k + 7)
        j2 == SkipSeparators(s, j1 + 6)
    IN  IF /\ MatchCI(s, k, "Correct")
           /\ MatchCI(s, j1, "Answer")
           /\ Lower(Ch(s, j2)) \in {"a", "b", "c", "d"}
        THEN Some(Ch(s, j2))
        ELSE None

correctMatch(s) ==
    LET hits == {k \in 1..Len(s) : CorrectAnswerAt(s, k) # None}
    IN  IF hits = {} THEN None ELSE CorrectAnswerAt(s, Min(hits))

\* the lookahead (?=\n\s*$|$) at index e
EndOfContent(s, e) ==
    \/ e = Len(s) + 1
    \/ Ch(s, e) = "\n" /\ SkipWs(s, e + 1) = Len(s) + 1

\* /Explanation\s*[:\s]*([\s\S]+?)(?=\n\s*$|$)/i tried at index k
ExplanationAt(s, k) ==
    LET j == k + 11
        g == SkipSeparators(s, j)
        endOf(s0) == {e \in (s0 + 1)..(Len(s) + 1) : EndOfContent(s, e)}
        starts == {s0 \in j..g : s0 <= Len(s)}
    IN  IF MatchCI(s, k, "Explanation") /\ starts # {}
        THEN Some(SubSeq(s, Max(starts), Min(endOf(Max(starts))) - 1))
        ELSE None

explanationMatch(s) ==
    LET hits == {k \in 1..Len(s) : ExplanationAt(s, k) # None}
    IN  IF hits = {} THEN None ELSE ExplanationAt(s, Min(hits))

(***************************************************************************)
(* parseMCQResponse: one pass of the loop body over parts[i], parts[i + 1] *)
(***************************************************************************)
\* parts is 0-based in the source
PartAt(n) == parts[n + 1]

\* variant: the record is numbered by its place in the text, not by its marker
questionNumRenumbered == (i + 1) \div 2
questionNum == parseInt(PartAt(i))
questionContent == IF i + 1 < Len(parts) THEN PartAt(i + 1) ELSE ""

question(qc) ==
    LET m == questionMatch(qc)
    IN  IF m # None THEN Trim(m[1]) ELSE ""

optionA(qc) == extractOption(qc, "A", "B")
optionB(qc) == extractOption(qc, "B", "C")
optionC(qc) == extractOption(qc, "C", "D")
optionD(qc) == extractOption(qc, "D", "Correct")

\* variant: the matched letter is stored as written
correctAnswerAsWritten(qc) ==
    LET m == correctMatch(qc)
    IN  IF m # None THEN m[1] ELSE "A"

\* variant: no default when the answer is not found
correctAnswerNoDefault(qc) ==
    LET m == correctMatch(qc)
    IN  IF m # None THEN toUpperCase(m[1]) ELSE ""

correctAnswer(qc) ==
    LET m == correctMatch(qc)
    IN  IF m # None THEN toUpperCase(m[1]) ELSE "A"

\* variant: the default names a fixed letter
DefaultExplanationFixedLetter(letter) == "The correct answer is A."
DefaultExplanation(letter) == "The correct answer is " \o letter \o "."

explanation(qc) ==
    LET m == explanationMatch(qc)
    IN  IF m # None THEN Trim(m[1]) ELSE DefaultExplanation(correctAnswer(qc))

\* variant: the length is taken after a trim
TooShortTrimmed(qc) == qc = "" \/ Len(Trim(qc)) < MinContentLength
TooShort(qc) == qc = "" \/ Len(qc) < MinContentLength
NoQuestion(qc) == question(qc) = "" \/ Len(question(qc)) < MinQuestionLength
\* variant: option C is not validated
MissingOptionSkipsC(qc) ==
    optionA(qc) = "" \/ optionB(qc) = "" \/ optionD(qc) = ""
MissingOption(qc) ==
    optionA(qc) = "" \/ optionB(qc) = "" \/ optionC(qc) = "" \/ optionD(qc) = ""

NewRecord(num, qc) ==
    [id |-> num, question |-> question(qc),
     optionA |-> optionA(qc), optionB |-> optionB(qc),
     optionC |-> optionC(qc), optionD |-> optionD(qc),
     correctAnswer |-> correctAnswer(qc), explanation |-> explanation(qc)]

\* variant: the record is put in front
PushRecordFront(list, r) == <<r>> \o list
PushRecord(list, r) == Append(list, r)

(***************************************************************************)
(* extractMainContent and parseHtmlToBlocks: the regular expressions       *)
(***************************************************************************)
\* a paragraph is kept when its text is longer than this
MinParagraphLength == 20

\* \w, for \b
IsWordChar(c) ==
    \/ c \in DOMAIN LowerOf
    \/ \E u \in DOMAIN LowerOf : LowerOf[u] = c
    \/ IsDigit(c)
    \/ c = "_"

\* the first index at or after from where lit occurs (flag i), 0 when none
IndexFrom(s, from, lit) ==
    LET hits == {k \in from..Len(s) : MatchCI(s, k, lit)}
    IN  IF hits = {} THEN 0 ELSE Min(hits)

\* prefix[^>]*> (with \b after the prefix when wb) tried at index k: the
\* index of the > that ends the opening tag, 0 when no match
OpenTagEnd(s, k, prefix, wb) ==
    IF MatchCI(s, k, prefix) /\ (wb => ~IsWordChar(Ch(s, k + Len(prefix))))
    THEN IndexFrom(s, k + Len(prefix), ">")
    ELSE 0

\* the first index after g where lit occurs; 0 when none or when g is 0
IndexAfter(s, g, lit) == IF g = 0 THEN 0 ELSE IndexFrom(s, g + 1, lit)

\* a match: where it starts, the tag name as written, the captured text,
\* and the index after the match
Found(k, tag, inner, next) ==
    Some([start |-> k, tag |-> tag, inner |-> inner, next |-> next])

\* the opening tag ends at g and the closing tag starts at c
ElementMatch(s, k, prefix, close, g, c) ==
    IF c = 0 THEN None
    ELSE Found(k, SubSeq(s, k + 1, k + Len(prefix) - 1), SubSeq(s, g + 1, c - 1),
               c + Len(close))

ElementFrom(s, k, prefix, close, g) ==
    ElementMatch(s, k, prefix, close, g, IndexAfter(s, g, close))

\* prefix[^>]*>([\s\S]*?)close tried at index k
ElementAt(s, k, prefix, wb, close) ==
    ElementFrom(s, k, prefix, close, OpenTagEnd(s, k, prefix, wb))

Vocabulary == {"sidebar", "advertisement", "ads", "comments", "related", "social", "share"}

\* the vocabulary without flag i: the words as they are written
NamesBoilerplateCaseSensitive(s, v, e) ==
    /\ e # 0
    /\ \E w \in Vocabulary : \E q \in v..(e - Len(w)) : SubSeq(s, q, q + Len(w) - 1) = w

\* [^"]*(?:sidebar|...|share)[^"]*" from index v on: the value ends at e
NamesBoilerplate(s, v, e) ==
    /\ e # 0
    /\ \E w \in Vocabulary : \E q \in v..(e - Len(w)) : MatchCI(s, q, w)

\* the " that ends the class value that starts after class=" at c
ClassValueEnd(s, c) == IndexFrom(s, c + 7, "\"")
\* [^>]*> after the class value
DivOpenEnd(s, c) == IndexAfter(s, ClassValueEnd(s, c), ">")
\* [\s\S]*?<\/div>
DivClose(s, c) == IndexAfter(s, DivOpenEnd(s, c), "</div>")

\* [^>]* before class=" stays inside the opening tag
ClassLimit(s, tagEnd) == IF tagEnd = 0 THEN Len(s) ELSE tagEnd

\* the places of class=" in the tag opened at k that lead to a match
ClassStarts(s, k) ==
    {c \in (k + 4)..ClassLimit(s, IndexFrom(s, k + 4, ">")) :
        /\ MatchCI(s, c, "class=\"")
        /\ NamesBoilerplate(s, c + 7, ClassValueEnd(s, c))
        /\ DivClose(s, c) # 0}

DivMatch(s, k, g, e) == Found(k, "div", SubSeq(s, g + 1, e - 1), e + 6)

\* [^>]* is greedy: the last class=" that leads to a match is the one found
DivFrom(s, k, cs) ==
    IF cs = {} THEN None
    ELSE DivMatch(s, k, DivOpenEnd(s, Max(cs)), DivClose(s, Max(cs)))

\* <div[^>]*class="[^"]*(?:sidebar|...|share)[^"]*"[^>]*>[\s\S]*?<\/div> tried at k
DivAt(s, k) ==
    IF MatchCI(s, k, "<div") THEN DivFrom(s, k, ClassStarts(s, k)) ELSE None

CommentMatch(s, k, c) ==
    IF c = 0 THEN None ELSE Found(k, "!--", SubSeq(s, k + 4, c - 1), c + 3)

\* <!--[\s\S]*?--> tried at k
CommentAt(s, k) ==
    IF MatchCI(s, k, "<!--") THEN CommentMatch(s, k, IndexFrom(s, k + 4, "-->")) ELSE None

RawTextMatch(s, k, name, from, c) ==
    IF c = 0 THEN None ELSE Found(k, name, SubSeq(s, from, c - 1), c + Len(name) + 3)

\* <script\b[^<]*(?:(?!<\/script>)<[^<]*)*<\/script> (and the same for style)
\* tried at k: from the opening word to the first closing tag after it
RawTextAt(s, k, name) ==
    IF MatchCI(s, k, "<" \o name) /\ ~IsWordChar(Ch(s, k + Len(name) + 1))
    THEN RawTextMatch(s, k, name, k + Len(name) + 1,
                      IndexFrom(s, k + Len(name) + 1, "</" \o name \o ">"))
    ELSE None

TagMatch(s, k, g) ==
    IF g >= k + 2 THEN Found(k, "", SubSeq(s, k + 1, g - 1), g + 1) ELSE None

\* <[^>]+> tried at k
TagAt(s, k) ==
    IF Ch(s, k) = "<" THEN TagMatch(s, k, IndexFrom(s, k + 1, ">")) ELSE None

\* the element patterns: opening prefix, \b after it, closing tag
\*   <nav\b[^>]*>[\s\S]*?<\/nav>  ...  <p[^>]*>([\s\S]*?)<\/p>
ElementPatterns ==
    [ nav        |-> [prefix |-> "<nav", wb |-> TRUE, close |-> "</nav>"],
      header     |-> [prefix |-> "<header", wb |-> TRUE, close |-> "</header>"],
      footer     |-> [prefix |-> "<footer", wb |-> TRUE, close |-> "</footer>"],
      aside      |-> [prefix |-> "<aside", wb |-> TRUE, close |-> "</aside>"],
      paragraph  |-> [prefix |-> "<p", wb |-> FALSE, close |-> "</p>"],
      li         |-> [prefix |-> "<li", wb |-> FALSE, close |-> "</li>"],
      blockquote |-> [prefix |-> "<blockquote", wb |-> FALSE, close |-> "</blockquote>"],
      article    |-> [prefix |-> "<article", wb |-> FALSE, close |-> "</article>"],
      main       |-> [prefix |-> "<main", wb |-> FALSE, close |-> "</main>"] ]

\* <h([1-6])[^>]*>([\s\S]*?)<\/h\1> at k: the digit at k + 2 names the pattern
\* (with another character there no heading pattern matches at k, that of
\* h1 included)
HeadingPattern(d) ==
    IF d \in {"1", "2", "3", "4", "5", "6"}
    THEN [prefix |-> "<h" \o d, wb |-> FALSE, close |-> "</h" \o d \o ">"]
    ELSE [prefix |-> "<h1", wb |-> FALSE, close |-> "</h1>"]

\* <(ul|ol)[^>]*>([\s\S]*?)<\/\1> at k
ListPattern(isUl) ==
    IF isUl THEN [prefix |-> "<ul", wb |-> FALSE, close |-> "</ul>"]
    ELSE [prefix |-> "<ol", wb |-> FALSE, close |-> "</ol>"]

PatternAt(s, k, pat) ==
    CASE pat = "heading" -> HeadingPattern(Ch(s, k + 2))
      [] pat = "list" -> ListPattern(MatchCI(s, k, "<ul"))
      [] OTHER -> ElementPatterns[pat]

ElementOf(s, k, e) == ElementAt(s, k, e.prefix, e.wb, e.close)

\* the regular expressions, by name
MatchAt(s, k, pat) ==
    CASE pat = "div" -> DivAt(s, k)
      [] pat = "comment" -> CommentAt(s, k)
      [] pat \in {"script", "style"} -> RawTextAt(s, k, pat)
      [] pat = "tag" -> TagAt(s, k)
      [] OTHER -> ElementOf(s, k, PatternAt(s, k, pat))

\* of the matches found at different indexes, the leftmost
Leftmost(ms) ==
    IF ms = {} THEN None
    ELSE CHOOSE m \in ms : \A m2 \in ms : m[1].start <= m2[1].start

\* the leftmost match at or after from: None or the match
NextMatch(s, from, pat) ==
    Leftmost({MatchAt(s, k, pat) : k \in from..Len(s)} \ {None})

\* s.replace(pattern, '') with flag g, from index from on
RECURSIVE RemoveFrom(_, _, _)
RemoveMatch(s, from, pat, m) ==
    IF m = None THEN SubSeq(s, from, Len(s))
    ELSE SubSeq(s, from, m[1].start - 1) \o RemoveFrom(s, m[1].next, pat)

RemoveFrom(s, from, pat) == RemoveMatch(s, from, pat, NextMatch(s, from, pat))

RemoveAll(s, pat) == RemoveFrom(s, 1, pat)

\* while ((match = regex.exec(s)) !== null): the matches in order, and
\* s.match(regex) with flag g
RECURSIVE MatchesFrom(_, _, _)
MatchesAfter(s, pat, m) ==
    IF m = None THEN <<>> ELSE <<m[1]>> \o MatchesFrom(s, m[1].next, pat)

MatchesFrom(s, from, pat) == MatchesAfter(s, pat, NextMatch(s, from, pat))

AllMatches(s, pat) == MatchesFrom(s, 1, pat)

\* x.replace(/<[^>]+>/g, '').trim()
StripTags(x) == Trim(RemoveAll(x, "tag"))

(***************************************************************************)
(* extractMainContent                                                      *)
(***************************************************************************)
removePatterns == <<"nav", "header", "footer", "aside", "div", "comment">>

\* the article body, else the main body, else the content
\* the two tests the other way round: main before article
SelectMainFirst(c, articleMatch, mainMatch) ==
    IF mainMatch # None THEN mainMatch[1].inner
    ELSE IF articleMatch # None THEN articleMatch[1].inner
    ELSE c

SelectFrom(c, articleMatch, mainMatch) ==
    IF articleMatch # None THEN articleMatch[1].inner
    ELSE IF mainMatch # None THEN mainMatch[1].inner
    ELSE c

SelectBody(c) == SelectFrom(c, NextMatch(c, 1, "article"), NextMatch(c, 1, "main"))

(***************************************************************************)
(* parseHtmlToBlocks                                                       *)
(***************************************************************************)
RemoveScriptsAndStyles(h) == RemoveAll(RemoveAll(h, "script"), "style")

\* the four loops, in the order of the source
\* the loops in another order: paragraphs before headings
phasesParagraphsFirst == <<"paragraph", "heading", "list", "blockquote">>
\* the four while loops of parseHtmlToBlocks, in the order of the code
phases == <<"heading", "paragraph", "list", "blockquote">>

RECURSIVE JoinWith(_, _)
JoinWith(items, sep) ==
    IF items = <<>> THEN ""
    ELSE IF Len(items) = 1 THEN items[1]
    ELSE items[1] \o sep \o JoinWith(Tail(items), sep)

\* listItems.map(item => item.replace(/<[^>]+>/g, '').trim()).filter(item => item)
StrippedItems(inner, lis) ==
    SelectSeq([n \in 1..Len(lis) |-> StripTags(SubSeq(inner, lis[n].start, lis[n].next - 1))],
              LAMBDA x : x # "")

\* the full matches of the li pattern, stripped, the empty ones filtered out
ListItems(inner) == StrippedItems(inner, AllMatches(inner, "li"))

\* the block of one match: None when nothing is pushed
HeadingOf(m, text) ==
    IF text # ""
    THEN Some([type |-> "heading", level |-> parseInt(SubSeq(m.tag, 2, 2)), content |-> text])
    ELSE None

HeadingBlock(m) == HeadingOf(m, StripTags(m.inner))

\* the threshold with >= in the place of >
ParagraphOfInclusive(text) ==
    IF text # "" /\ Len(text) >= MinParagraphLength
    THEN Some([type |-> "paragraph", content |-> text])
    ELSE None

ParagraphOf(text) ==
    IF text # "" /\ Len(text) > MinParagraphLength
    THEN Some([type |-> "paragraph", content |-> text])
    ELSE None

ParagraphBlock(m) == ParagraphOf(StripTags(m.inner))

\* the list pushed without the test of items.length
ListOfUnchecked(m, items) ==
    Some([type |-> IF m.tag = "ol" THEN "ordered-list" ELSE "unordered-list",
          items |-> items, content |-> JoinWith(items, ", ")])

ListOf(m, items) ==
    IF Len(items) > 0
    THEN Some([type |-> IF m.tag = "ol" THEN "ordered-list" ELSE "unordered-list",
               items |-> items, content |-> JoinWith(items, ", ")])
    ELSE None

ListBlock(m) == ListOf(m, ListItems(m.inner))

QuoteOf(text) ==
    IF text # "" THEN Some([type |-> "quote", content |-> text]) ELSE None

QuoteBlock(m) == QuoteOf(StripTags(m.inner))

BlockOf(pat, m) ==
    CASE pat = "heading" -> HeadingBlock(m)
      [] pat = "paragraph" -> ParagraphBlock(m)
      [] pat = "list" -> ListBlock(m)
      [] pat = "blockquote" -> QuoteBlock(m)

RECURSIVE Flatten(_)
Flatten(ss) == IF ss = <<>> THEN <<>> ELSE ss[1] \o Flatten(Tail(ss))

\* one while loop of parseHtmlToBlocks: the blocks it pushes, in order
BlocksOfMatches(pat, ms) == Flatten([n \in 1..Len(ms) |-> BlockOf(pat, ms[n])])

BlocksOf(h, pat) == BlocksOfMatches(pat, AllMatches(h, pat))

(***************************************************************************)
(* The input texts: entries written after the prompt's output format, and  *)
(* the ways a completion drifts from it (a line left out, an empty field,  *)
(* a short body, words of the format used inside the text)                 *)
(***************************************************************************)
\* longest input of several entries
MaxEntries == 3

Line(prefix, field) == IF field = None THEN "" ELSE "\n" \o prefix \o field[1]

\* one entry in the output format of the prompt; a field that is None has no line
Render(e) ==
    "Question " \o ToString(e.n) \o ": " \o e.stem
        \o Line("A. ", e.a) \o Line("B. ", e.b) \o Line("C. ", e.c) \o Line("D. ", e.d)
        \o Line("Correct Answer: ", e.ans) \o Line("Explanation: ", e.expl)

RECURSIVE RenderAll(_)
RenderAll(es) ==
    IF es = <<>> THEN ""
    ELSE IF Len(es) = 1 THEN Render(es[1])
    ELSE Render(es[1]) \o "\n\n" \o RenderAll(Tail(es))

Stems ==
    { "Which river is the longest river?",
      "Why so?",
      "Pick a river",
      "Name the ocean around the Arctic.",
      "Which is the capital of India.",
      "Is the correct answer Delhi or Goa?",
      "Which explanation fits the data?" }

\* one entry whose answer line and explanation line drift from the format
DriftingAnswerEntries ==
    [ n    : {1, 7},
      stem : Stems,
      a    : {Some("Nile")},
      b    : {Some("Amazon")},
      c    : {Some("Ganga")},
      d    : {Some("Indus")},
      ans  : {None, Some("B"), Some("c"), Some("Both"), Some("None")},
      expl : {None, Some(""), Some("It is the longest.")} ]

\* one entry whose option C is left out or left empty
DriftingOptionEntries ==
    [ n    : {1, 7},
      stem : { "Which river is the longest river?",
               "Name the ocean around the Arctic.",
               "Which is the capital of India." },
      a    : {Some("Nile")},
      b    : {Some("Amazon"), Some("Pacific.")},
      c    : {None, Some("")},
      d    : {Some("Indus")},
      ans  : {None, Some("B")},
      expl : {None, Some("It is the longest.")} ]

RichEntries == DriftingAnswerEntries \cup DriftingOptionEntries

PlainEntries ==
    [ n    : {1, 2},
      stem : {"Which river is the longest river?"},
      a    : {Some("Nile")},
      b    : {Some("Amazon")},
      c    : {None, Some("Ganga")},
      d    : {Some("Indus")},
      ans  : {Some("B")},
      expl : {Some("It is the longest.")} ]

Inputs ==
    {<<e>> : e \in RichEntries}
        \cup UNION {[1..n -> PlainEntries] : n \in 2..MaxEntries}

Preambles == {"", "Here are the MCQs:\n\n"}

(***************************************************************************)
(* parseMCQResponse as a state machine                                     *)
(***************************************************************************)
Init ==
    /\ entries \in Inputs
    /\ \E pre \in Preambles :
          /\ Len(entries) = 1 => pre = ""
          /\ content = pre \o RenderAll(entries)
    /\ parts = <<>>
    /\ i = 0
    /\ mcqs = <<>>
    /\ kept = <<>>
    /\ pc = "start"
    /\ page = <<>>
    /\ html = ""
    /\ mainContent = ""
    /\ rp = 0
    /\ cleanHtml = ""
    /\ ph = 0
    /\ blocks = <<>>
    /\ hpc = "idle"
    /\ NoCaller

\* variant: the list of the records outlives the call
SplitKeepingRecords ==
    /\ pc = "start"
    /\ parts' = SplitQuestions(content)
    /\ i' = 1
    /\ pc' = "loop"
    /\ UNCHANGED <<entries, content, mcqs, kept, htmlVars, callerVars>>
\* const mcqs = []; const parts = content.split(...); i = 1
Split ==
    /\ pc = "start"
    /\ parts' = SplitQuestions(content)
    /\ i' = 1
    /\ mcqs' = <<>>
    /\ kept' = <<>>
    /\ pc' = "loop"
    /\ UNCHANGED <<entries, content, htmlVars, callerVars>>

InLoop == pc = "loop" /\ i < Len(parts)

\* if (!questionContent || questionContent.length < 50) continue
SkipShort ==
    /\ InLoop
    /\ TooShort(questionContent)
    /\ i' = i + 2
    /\ UNCHANGED <<entries, content, parts, mcqs, kept, pc, htmlVars, callerVars>>

\* if (!question || question.length < 10) continue
SkipNoQuestion ==
    /\ InLoop
    /\ ~TooShort(questionContent)
    /\ NoQuestion(questionContent)
    /\ i' = i + 2
    /\ UNCHANGED <<entries, content, parts, mcqs, kept, pc, htmlVars, callerVars>>

\* if (!optionA || !optionB || !optionC || !optionD) continue
SkipMissingOption ==
    /\ InLoop
    /\ ~TooShort(questionContent)
    /\ ~NoQuestion(questionContent)
    /\ MissingOption(questionContent)
    /\ i' = i + 2
    /\ UNCHANGED <<entries, content, parts, mcqs, kept, pc, htmlVars, callerVars>>

\* mcqs.push({...})
Push ==
    /\ InLoop
    /\ ~TooShort(questionContent)
    /\ ~NoQuestion(questionContent)
    /\ ~MissingOption(questionContent)
    /\ mcqs' = PushRecord(mcqs, NewRecord(questionNum, questionContent))
    /\ kept' = Append(kept, (i + 1) \div 2)
    /\ i' = i + 2
    /\ UNCHANGED <<entries, content, parts, pc, htmlVars, callerVars>>

\* return mcqs
Return ==
    /\ pc = "loop"
    /\ i >= Len(parts)
    /\ pc' = "done"
    /\ UNCHANGED <<entries, content, parts, i, mcqs, kept, htmlVars, callerVars>>

Next == Split \/ SkipShort \/ SkipNoQuestion \/ SkipMissingOption \/ Push \/ Return

Spec == Init /\ [][Next]_vars

(***************************************************************************)
(* Completions with segments around the length of 50 characters: an entry  *)
(* of the stem "Pick a river" with neither answer nor explanation has a    *)
(* body of 49 characters when it is the last one and of 51 characters when *)
(* another entry follows; with "Pick a river?" the body has 50.  An entry  *)
(* may lack its option D.                                                  *)
(***************************************************************************)
BoundaryEntries ==
    [ n    : {1},
      stem : {"Why so?", "Pick a river", "Pick a river?"},
      a    : {Some("Nile")},
      b    : {Some("Amazon")},
      c    : {Some("Ganga")},
      d    : {None, Some("Indus")},
      ans  : {None, Some("B")},
      expl : {None, Some("It is the longest.")} ]

BoundaryInputs == UNION {[1..n -> BoundaryEntries] : n \in 1..(MaxEntries - 1)}

InitBoundary ==
    /\ entries \in BoundaryInputs
    /\ content = RenderAll(entries)
    /\ parts = <<>>
    /\ i = 0
    /\ mcqs = <<>>
    /\ kept = <<>>
    /\ pc = "start"
    /\ page = <<>>
    /\ html = ""
    /\ mainContent = ""
    /\ rp = 0
    /\ cleanHtml = ""
    /\ ph = 0
    /\ blocks = <<>>
    /\ hpc = "idle"
    /\ NoCaller

SpecBoundary == InitBoundary /\ [][Next]_vars

(***************************************************************************)
(* The documents: pieces of markup put one after the other, as they are,   *)
(* inside one article element, or with all but the first piece inside it   *)
(***************************************************************************)
\* longest document, in pieces
MaxPieces == 2

Element(kind, text) == [kind |-> kind, text |-> text]
Piece(markup, elems) == [html |-> markup, elems |-> elems]

LongText == "xxxxxxxxxxxxxxxxxxxxxxxxx"
FirstParagraph == "A first paragraph of the text."
SkipParagraph == "SKIP this block of boilerplate"

\* elems: the block elements of the piece in source order, also those that
\* stand inside a boilerplate container
Pieces ==
    { Piece("<h2>Alpha</h2>", <<Element("heading", "Alpha")>>),
      Piece("<h2>One</h2><p>" \o FirstParagraph \o "</p>",
            <<Element("heading", "One"), Element("paragraph", FirstParagraph)>>),
      Piece("<h3 class=\"t\">Beta</h3>", <<Element("heading", "Beta")>>),
      Piece("<h1>T</h1><p>" \o LongText \o "</p>",
            <<Element("heading", "T"), Element("paragraph", LongText)>>),
      Piece("<p>A paragraph of <b>some</b> length.</p>",
            <<Element("paragraph", "A paragraph of some length.")>>),
      Piece("<p>short</p>", <<Element("paragraph", "short")>>),
      Piece("<ul><li>one</li><li>two</li></ul>", <<Element("list", "one, two")>>),
      Piece("<blockquote>Proverb</blockquote>", <<Element("quote", "Proverb")>>),
      Piece("<nav>SKIP</nav>", <<>>),
      Piece("<header><h1>SKIP</h1></header>", <<Element("heading", "SKIP")>>),
      Piece("<footer><p>" \o SkipParagraph \o "</p></footer>",
            <<Element("paragraph", SkipParagraph)>>),
      Piece("<aside><blockquote>SKIP</blockquote></aside>", <<Element("quote", "SKIP")>>),
      Piece("<nav><nav>Top</nav><ul><li>SKIP</li></ul></nav>", <<Element("list", "SKIP")>>) }

Wraps == {"none", "all", "tail"}

RECURSIVE Markup(_)
Markup(ps) == IF ps = <<>> THEN "" ELSE ps[1].html \o Markup(Tail(ps))

Document(ps, wrap) ==
    CASE wrap = "none" -> Markup(ps)
      [] wrap = "all" -> "<article>" \o Markup(ps) \o "</article>"
      [] wrap = "tail" ->
            ps[1].html \o "<article>" \o Markup(Tail(ps)) \o "</article>"

Pages ==
    [ pieces : UNION {[1..n -> Pieces] : n \in 1..MaxPieces}, wrap : Wraps ]

(***************************************************************************)
(* smartScrape, lines 146-147: extractMainContent, then parseHtmlToBlocks  *)
(***************************************************************************)
InitHtml ==
    /\ page \in Pages
    /\ html = Document(page.pieces, page.wrap)
    /\ mainContent = html
    /\ rp = 0
    /\ cleanHtml = ""
    /\ ph = 0
    /\ blocks = <<>>
    /\ hpc = "remove"
    /\ entries = <<>>
    /\ content = ""
    /\ parts = <<>>
    /\ i = 0
    /\ mcqs = <<>>
    /\ kept = <<>>
    /\ pc = "idle"
    /\ NoCaller

\* for (const pattern of removePatterns) content = content.replace(pattern, '')
RemovePattern ==
    /\ hpc = "remove"
    /\ rp < Len(removePatterns)
    /\ mainContent' = RemoveAll(mainContent, removePatterns[rp + 1])
    /\ rp' = rp + 1
    /\ UNCHANGED <<page, html, cleanHtml, ph, blocks, hpc, mcqVars, callerVars>>

\* the return statements of extractMainContent
Select ==
    /\ hpc = "remove"
    /\ rp = Len(removePatterns)
    /\ mainContent' = SelectBody(mainContent)
    /\ hpc' = "clean"
    /\ UNCHANGED <<page, html, rp, cleanHtml, ph, blocks, mcqVars, callerVars>>

\* parseHtmlToBlocks(mainContent): blocks = [], cleanHtml
Clean ==
    /\ hpc = "clean"
    /\ cleanHtml' = RemoveScriptsAndStyles(mainContent)
    /\ blocks' = <<>>
    /\ ph' = 0
    /\ hpc' = "extract"
    /\ UNCHANGED <<page, html, mainContent, rp, mcqVars, callerVars>>

\* the next of the four while loops
ExtractBlocks ==
    /\ hpc = "extract"
    /\ ph < Len(phases)
    /\ blocks' = blocks \o BlocksOf(cleanHtml, phases[ph + 1])
    /\ ph' = ph + 1
    /\ UNCHANGED <<page, html, mainContent, rp, cleanHtml, hpc, mcqVars, callerVars>>

\* return blocks
ReturnBlocks ==
    /\ hpc = "extract"
    /\ ph = Len(phases)
    /\ hpc' = "done"
    /\ UNCHANGED <<page, html, mainContent, rp, cleanHtml, ph, blocks, mcqVars, callerVars>>

NextHtml == RemovePattern \/ Select \/ Clean \/ ExtractBlocks \/ ReturnBlocks

SpecHtml == InitHtml /\ [][NextHtml]_vars

(***************************************************************************)
(* The two functions as functions of their argument                        *)
(***************************************************************************)
\* content after the first n of removePatterns
RECURSIVE AfterPatterns(_, _)
AfterPatterns(c, n) ==
    IF n = 0 THEN c ELSE RemoveAll(AfterPatterns(c, n - 1), removePatterns[n])

extractMainContent(h) == SelectBody(AfterPatterns(h, Len(removePatterns)))

\* blocks after the first n of the four loops
RECURSIVE AfterPhases(_, _)
AfterPhases(h, n) ==
    IF n = 0 THEN <<>> ELSE AfterPhases(h, n - 1) \o BlocksOf(h, phases[n])

parseHtmlToBlocks(h) == AfterPhases(RemoveScriptsAndStyles(h), Len(phases))

(***************************************************************************)
(* Documents with boilerplate containers, comments, scripts, and article   *)
(* and main elements. The text of each piece names where it stands:        *)
(* "Live" in the content of the page, "SIDE" inside a div whose class has  *)
(* a word of the vocabulary, "ignore" inside a div of class ad-banner,     *)
(* "CASED" inside a div whose class has a word of the vocabulary in        *)
(* another letter case.                                                    *)
(***************************************************************************)
LiveParagraph == "Live paragraph of the article."
SideParagraph == "SIDE paragraph of the sidebar."
BannerParagraph == "ignore this banner of the sponsor"
CasedParagraph == "CASED paragraph of the sidebar."
MainParagraph == "Main paragraph of the page."
ArticleParagraph == "First article paragraph text."

LivePiece == Piece("<p>" \o LiveParagraph \o "</p>", <<Element("paragraph", LiveParagraph)>>)
SidebarPiece ==
    Piece("<div class=\"sidebar\"><p>" \o SideParagraph \o "</p></div>",
          <<Element("paragraph", SideParagraph)>>)
RelatedPiece ==
    Piece("<div id=\"s\" class=\"box related wide\"><h2>SIDE</h2></div>",
          <<Element("heading", "SIDE")>>)
NestedDivPiece ==
    Piece("<div class=\"comments\"><div>Top</div><p>" \o SideParagraph \o "</p></div>",
          <<Element("paragraph", SideParagraph)>>)
BannerTextPiece == Piece("<div class=\"ad-banner\">ignore</div>", <<>>)
BannerParagraphPiece ==
    Piece("<div class=\"ad-banner\"><p>" \o BannerParagraph \o "</p></div>",
          <<Element("paragraph", BannerParagraph)>>)
CasedSidebarPiece ==
    Piece("<div class=\"Sidebar\"><p>" \o CasedParagraph \o "</p></div>",
          <<Element("paragraph", CasedParagraph)>>)
CasedAdsPiece == Piece("<div class=\"ADS\"><h3>CASED</h3></div>", <<Element("heading", "CASED")>>)
CommentedNavPiece ==
    Piece("<!--<nav>--><p>" \o LiveParagraph \o "</p>", <<Element("paragraph", LiveParagraph)>>)
NavPiece == Piece("<nav>menu</nav>", <<>>)
ScriptPiece == Piece("<script>var t = \"</article>\";</script>", <<>>)
MainPiece ==
    Piece("<main><p>" \o MainParagraph \o "</p></main>", <<Element("paragraph", MainParagraph)>>)
ArticlePiece ==
    Piece("<article><p>" \o ArticleParagraph \o "</p></article>",
          <<Element("paragraph", ArticleParagraph)>>)
SecondArticlePiece == Piece("<article><h2>Second</h2></article>", <<Element("heading", "Second")>>)

SanitizePieces ==
    { LivePiece, SidebarPiece, RelatedPiece, NestedDivPiece, BannerTextPiece,
      BannerParagraphPiece, CasedSidebarPiece, CasedAdsPiece, CommentedNavPiece,
      NavPiece, ScriptPiece, MainPiece, ArticlePiece, SecondArticlePiece }

SanitizePages ==
    [ pieces : UNION {[1..n -> SanitizePieces] : n \in 1..MaxPieces}, wrap : {"none", "all"} ]

\* smartScrape on one of these documents
InitSanitize ==
    /\ page \in SanitizePages
    /\ html = Document(page.pieces, page.wrap)
    /\ mainContent = html
    /\ rp = 0
    /\ cleanHtml = ""
    /\ ph = 0
    /\ blocks = <<>>
    /\ hpc = "remove"
    /\ entries = <<>>
    /\ content = ""
    /\ parts = <<>>
    /\ i = 0
    /\ mcqs = <<>>
    /\ kept = <<>>
    /\ pc = "idle"
    /\ NoCaller

SpecSanitize == InitSanitize /\ [][NextHtml]_vars

(***************************************************************************)
(* Documents of block elements at the edges: paragraphs of 20 and of 21    *)
(* characters, elements with tags only, lists with empty items             *)
(***************************************************************************)
TwentyChars == "Exactly twenty chars"
TwentyOneChars == "Exactly twenty chars."

BlockPieces ==
    { Piece("<p>" \o TwentyChars \o "</p>", <<Element("paragraph", TwentyChars)>>),
      Piece("<p>" \o TwentyOneChars \o "</p>", <<Element("paragraph", TwentyOneChars)>>),
      Piece("<p> <b>Exactly</b> twenty chars <br/></p>", <<Element("paragraph", TwentyChars)>>),
      Piece("<P class=\"lead\"><i>Exactly</i> twenty chars.\n</P>",
            <<Element("paragraph", TwentyOneChars)>>),
      Piece("<p><b></b> </p>", <<Element("paragraph", "")>>),
      Piece("<h4><span></span></h4>", <<Element("heading", "")>>),
      Piece("<h6>Deep</h6>", <<Element("heading", "Deep")>>),
      Piece("<ul><li> </li><li><b></b></li></ul>", <<Element("list", "")>>),
      Piece("<ol><li>one</li><li></li><li><a href=\"#\">two</a></li></ol>",
            <<Element("list", "one, two")>>),
      Piece("<ul></ul>", <<Element("list", "")>>),
      Piece("<blockquote><p></p></blockquote>", <<Element("paragraph", ""), Element("quote", "")>>),
      Piece("<blockquote>Proverb</blockquote>", <<Element("quote", "Proverb")>>) }

BlockPages == [ pieces : UNION {[1..n -> BlockPieces] : n \in 1..MaxPieces}, wrap : {"none"} ]

\* smartScrape on one of these documents
InitBlocks ==
    /\ page \in BlockPages
    /\ html = Document(page.pieces, page.wrap)
    /\ mainContent = html
    /\ rp = 0
    /\ cleanHtml = ""
    /\ ph = 0
    /\ blocks = <<>>
    /\ hpc = "remove"
    /\ entries = <<>>
    /\ content = ""
    /\ parts = <<>>
    /\ i = 0
    /\ mcqs = <<>>
    /\ kept = <<>>
    /\ pc = "idle"
    /\ NoCaller

SpecBlocks == InitBlocks /\ [][NextHtml]_vars

\* the value of a property the object does not have
Undefined == <<"undefined">>
Property(b, name) == IF name \in DOMAIN b THEN b[name] ELSE Undefined

\* smartScrape, lines 155-162: rawBlocks.map(block => ({ type, content, level, items }))
ContentBlockOf(block) ==
    [ type |-> CASE block.type = "ordered-list" -> "numbered"
                 [] block.type = "unordered-list" -> "bullet"
                 [] OTHER -> block.type,
      content |-> block.content,
      level |-> Property(block, "level"),
      items |-> Property(block, "items") ]

contentBlocks == [n \in 1..Len(blocks) |-> ContentBlockOf(blocks[n])]

(***************************************************************************)
(* generateMCQsWithAI: the text is cut and put in the prompt, fetch         *)
(* answers, the completion is parsed and the records are returned          *)
(***************************************************************************)
MAX_TEXT_LENGTH == 200000

\* String.prototype.repeat
RECURSIVE Repeat(_, _)
Repeat(s, n) ==
    IF n = 0 THEN ""
    ELSE IF n % 2 = 1 THEN s \o Repeat(s, n - 1)
    ELSE Repeat(s \o s, n \div 2)

\* String.prototype.substring(0, end)
substring(s, end) == IF Len(s) <= end THEN s ELSE SubSeq(s, 1, end)

\* a text of the length of MAX_TEXT_LENGTH and one character more
OverlongText == Repeat("x", MAX_TEXT_LENGTH + 1)

\* the texts generateMCQsWithAI is called with
Texts == {"The Nile is the longest river of Africa.", OverlongText}

\* data.choices?.[0]?.message?.content when the completion is not written in
\* the output format: None when there is no content, else the string
RawCompletions ==
    { None, Some(""), Some("Sorry, I cannot help with that."), Some("Question 1:"),
      Some(OverlongText),
      Some("Question one: Which river is the longest river?\nA. Nile\nB. Amazon\nC. Ganga\nD. Indus") }

GenerateInputs == {<<e>> : e \in BoundaryEntries \cup PlainEntries}

\* response.ok
Ok(r) == r.status \in 200..299

\* variant: only a missing content counts, the empty string is parsed
IsAbsentOnlyUndefined(c) == c = None
\* !content
IsAbsent(c) == c = None \/ c = Some("")

Returned(value) == Some([kind |-> "returned", value |-> value])
Thrown(message) == Some([kind |-> "thrown", message |-> message])

InitGenerate ==
    /\ entries \in GenerateInputs \cup {<<>>}
    /\ response \in [ status : {200, 500},
                      content : IF entries = <<>> THEN RawCompletions
                                ELSE {Some(RenderAll(entries))} ]
    /\ outcome = None
    /\ stage = "idle"
    /\ errorMessage = ""
    /\ progress = 0
    /\ statusMessage = ""
    /\ screenMcqs = <<>>
    /\ isLoading = FALSE
    /\ error = ""
    /\ article = None
    /\ screen = "none"
    /\ runs = <<>>
    /\ selectedAnswers = <<>>
    /\ showResults = <<>>
    /\ call \in {Some([fn |-> "generateMCQsWithAI", text |-> t]) : t \in Texts}
    /\ truncatedContent = None
    /\ returned = {}
    /\ RouteAtRest
    /\ content = ""
    /\ parts = <<>>
    /\ i = 0
    /\ mcqs = <<>>
    /\ kept = <<>>
    /\ pc = "called"
    /\ page = <<>>
    /\ html = ""
    /\ mainContent = ""
    /\ rp = 0
    /\ cleanHtml = ""
    /\ ph = 0
    /\ blocks = <<>>
    /\ hpc = "idle"

\* const truncatedText = text.substring(0, CONFIG.MAX_TEXT_LENGTH), the prompt
\* and the call of fetch
GenerateSends ==
    /\ pc = "called"
    /\ truncatedContent' = Some(substring(call[1].text, MAX_TEXT_LENGTH))
    /\ pc' = "fetched"
    /\ UNCHANGED <<entries, content, parts, i, mcqs, kept, htmlVars, response, outcome, uiVars,
                   article, screenVars, call, returned, routeVars>>

\* if (!response.ok) throw new Error(`AI Error: ${response.status}. Please try again.`)
GenerateThrowsStatus ==
    /\ pc = "fetched"
    /\ ~Ok(response)
    /\ outcome' = Thrown("AI Error: " \o ToString(response.status) \o ". Please try again.")
    /\ pc' = "thrown"
    /\ UNCHANGED <<entries, content, parts, i, mcqs, kept, htmlVars, response, uiVars, article,
                   screenVars, callVars>>

\* if (!content) throw new Error('AI returned empty response. Please try again.')
GenerateThrowsEmpty ==
    /\ pc = "fetched"
    /\ Ok(response)
    /\ IsAbsent(response.content)
    /\ outcome' = Thrown("AI returned empty response. Please try again.")
    /\ pc' = "thrown"
    /\ UNCHANGED <<entries, content, parts, i, mcqs, kept, htmlVars, response, uiVars, article,
                   screenVars, callVars>>

\* const mcqs = parseMCQResponse(content): the call
GenerateParses ==
    /\ pc = "fetched"
    /\ Ok(response)
    /\ ~IsAbsent(response.content)
    /\ content' = response.content[1]
    /\ pc' = "start"
    /\ UNCHANGED <<entries, parts, i, mcqs, kept, htmlVars, callerVars>>

\* return mcqs
GenerateReturns ==
    /\ pc = "done"
    /\ response # None
    /\ outcome' = Returned(mcqs)
    /\ pc' = "returned"
    /\ UNCHANGED <<entries, content, parts, i, mcqs, kept, htmlVars, response, uiVars, article,
                   screenVars, callVars>>

NextGenerate ==
    \/ GenerateSends \/ GenerateThrowsStatus \/ GenerateThrowsEmpty \/ GenerateParses
    \/ Split \/ SkipShort \/ SkipNoQuestion \/ SkipMissingOption \/ Push \/ Return
    \/ GenerateReturns

SpecGenerate == InitGenerate /\ [][NextGenerate]_vars

(***************************************************************************)
(* JSON.parse, for texts without escapes, fractions and exponents: a value *)
(* carries its type, as typeof and Array.isArray tell it                   *)
(***************************************************************************)
JUndefined == [type |-> "undefined"]
JNull == [type |-> "null"]
JBoolean(b) == [type |-> "boolean", value |-> b]
JNumber(n) == [type |-> "number", value |-> n]
JString(str) == [type |-> "string", value |-> str]
JArray(items) == [type |-> "array", items |-> items]
JObject(members) == [type |-> "object", members |-> members]

\* the text has lit at index k, case by case
LiteralAt(s, k, lit) ==
    k >= 1 /\ k + Len(lit) - 1 <= Len(s) /\ SubSeq(s, k, k + Len(lit) - 1) = lit

Parsed(value, next) == Some([value |-> value, next |-> next])

\* a string from its opening quote at index k: it ends at the next quote, and
\* a line break in it is a syntax error
StringAt(s, k) ==
    LET quotes == {q \in (k + 1)..Len(s) : Ch(s, q) = "\""}
        body(q) == IF q = k + 1 THEN "" ELSE SubSeq(s, k + 1, q - 1)
    IN  IF Ch(s, k) # "\"" \/ quotes = {} THEN None
        ELSE IF \E n \in (k + 1)..(Min(quotes) - 1) : IsLineTerminator(Ch(s, n)) THEN None
        ELSE Parsed(JString(body(Min(quotes))), Min(quotes) + 1)

RECURSIVE ValueAt(_, _), ElementsAt(_, _, _), MembersAt(_, _, _)
\* a value after optional white space at index k: None, or the value and the
\* index after it
ValueAt(s, k) ==
    LET j == SkipWs(s, k)
        d == SkipDigits(s, j)
    IN  IF LiteralAt(s, j, "null") THEN Parsed(JNull, j + 4)
        ELSE IF LiteralAt(s, j, "true") THEN Parsed(JBoolean(TRUE), j + 4)
        ELSE IF LiteralAt(s, j, "false") THEN Parsed(JBoolean(FALSE), j + 5)
        ELSE IF d > j /\ (d = j + 1 \/ Ch(s, j) # "0")
        THEN Parsed(JNumber(parseInt(SubSeq(s, j, d - 1))), d)
        ELSE IF Ch(s, j) = "\"" THEN StringAt(s, j)
        ELSE IF Ch(s, j) = "[" /\ Ch(s, SkipWs(s, j + 1)) = "]"
        THEN Parsed(JArray(<<>>), SkipWs(s, j + 1) + 1)
        ELSE IF Ch(s, j) = "[" THEN ElementsAt(s, j + 1, <<>>)
        ELSE IF Ch(s, j) = "{" /\ Ch(s, SkipWs(s, j + 1)) = "}"
        THEN Parsed(JObject(<<>>), SkipWs(s, j + 1) + 1)
        ELSE IF Ch(s, j) = "{" THEN MembersAt(s, j + 1, <<>>)
        ELSE None

\* the elements of an array from index k, after the elements of acc
ElementsAt(s, k, acc) ==
    LET v == ValueAt(s, k)
        j == SkipWs(s, v[1].next)
    IN  IF v = None THEN None
        ELSE IF Ch(s, j) = "," THEN ElementsAt(s, j + 1, Append(acc, v[1].value))
        ELSE IF Ch(s, j) = "]" THEN Parsed(JArray(Append(acc, v[1].value)), j + 1)
        ELSE None

\* the members of an object from index k, after the members of acc
MembersAt(s, k, acc) ==
    LET name == StringAt(s, SkipWs(s, k))
        colon == SkipWs(s, name[1].next)
        v == ValueAt(s, colon + 1)
        j == SkipWs(s, v[1].next)
        member == [key |-> name[1].value.value, value |-> v[1].value]
    IN  IF name = None \/ Ch(s, colon) # ":" THEN None
        ELSE IF v = None THEN None
        ELSE IF Ch(s, j) = "," THEN MembersAt(s, j + 1, Append(acc, member))
        ELSE IF Ch(s, j) = "}" THEN Parsed(JObject(Append(acc, member)), j + 1)
        ELSE None

\* JSON.parse(text): None when it throws a SyntaxError, else the value
JSONparse(text) ==
    LET v == ValueAt(text, 1)
    IN  IF v = None THEN None
        ELSE IF SkipWs(text, v[1].next) <= Len(text) THEN None
        ELSE Some(v[1].value)

\* parsed.key of a value that is not null: of the members of that key the
\* last one, undefined when there is none
Get(parsed, key) ==
    LET at == IF parsed.type = "object"
              THEN {n \in DOMAIN parsed.members : parsed.members[n].key = key}
              ELSE {}
    IN  IF at = {} THEN JUndefined ELSE parsed.members[Max(at)].value

\* the operand is truthy
Truthy(v) ==
    /\ v.type \notin {"undefined", "null"}
    /\ v.type = "boolean" => v.value
    /\ v.type = "number" => v.value # 0
    /\ v.type = "string" => v.value # ""

\* v || fallback
Or(v, fallback) == IF Truthy(v) THEN v ELSE fallback

(***************************************************************************)
(* summarizeArticle, analyzeForUPSC and generateAnswerFromNotes: from the  *)
(* call to the prompt, and from the answer of fetch to the result          *)
(***************************************************************************)
MaxPromptContent == 8000
MinSummaryContent == 50
MaxNoteContent == 1500

Services == {"summarizeArticle", "analyzeForUPSC", "generateAnswerFromNotes"}

\* content.length > 8000 ? content.substring(0, 8000) + '...[truncated]' : content
Truncated(text) ==
    IF Len(text) > MaxPromptContent
    THEN substring(text, MaxPromptContent) \o "...[truncated]"
    ELSE text

\* `[Source ${i + 1}: ${note.source || note.title}]\n${note.content.substring(0, 1500)}`
NoteContext(note, n) ==
    "[Source " \o ToString(n) \o ": " \o OrElse(note.source, note.title) \o "]\n"
        \o substring(note.content, MaxNoteContent)

\* notes.map(...).join('\n\n---\n\n')
notesContext(notes) ==
    JoinWith([n \in DOMAIN notes |-> NoteContext(notes[n], n)], "\n\n---\n\n")

\* the result of the try block, from the value JSON.parse has given
Success(c, parsed) ==
    IF c.fn = "summarizeArticle"
    THEN [ summary |-> Or(Get(parsed, "summary"), JString("Summary not available")),
           keyPoints |-> Or(Get(parsed, "keyPoints"), JArray(<<>>)),
           relevantTopics |-> Or(Get(parsed, "relevantTopics"), JArray(<<>>)),
           suggestedTags |-> Or(Get(parsed, "suggestedTags"), JArray(<<>>)),
           error |-> None ]
    ELSE IF c.fn = "analyzeForUPSC"
    THEN [ summary |-> Or(Get(parsed, "summary"), JString("")),
           keyPoints |-> Or(Get(parsed, "keyPoints"), JArray(<<>>)),
           relevantTopics |-> Or(Get(parsed, "relevantTopics"), JArray(<<>>)),
           suggestedTags |-> Or(Get(parsed, "suggestedTags"), JArray(<<>>)),
           mainsRelevance |-> Or(Get(parsed, "mainsRelevance"), JObject(<<>>)),
           prelims |-> Or(Get(parsed, "prelims"), JArray(<<>>)),
           importantDates |-> Or(Get(parsed, "importantDates"), JArray(<<>>)),
           importantPersons |-> Or(Get(parsed, "importantPersons"), JArray(<<>>)),
           error |-> None ]
    ELSE [ answer |-> Or(Get(parsed, "answer"), JString("")),
           sources |-> Or(Get(parsed, "sources"),
                          JArray([n \in DOMAIN c.notes |-> JString(c.notes[n].title)])),
           error |-> None ]

\* variant: the catch block hands the error on
CaughtAndThrown(c, message) == Thrown(message)
\* the catch block: error is always an Error here
Caught(c, message) ==
    Returned(IF c.fn = "summarizeArticle"
             THEN [ summary |-> JString(""), keyPoints |-> JArray(<<>>),
                    relevantTopics |-> JArray(<<>>), suggestedTags |-> JArray(<<>>),
                    error |-> Some(message) ]
             ELSE IF c.fn = "analyzeForUPSC"
             THEN [ summary |-> JString(""), keyPoints |-> JArray(<<>>),
                    relevantTopics |-> JArray(<<>>), suggestedTags |-> JArray(<<>>),
                    mainsRelevance |-> JObject(<<>>), prelims |-> JArray(<<>>),
                    error |-> Some(message) ]
             ELSE [ answer |-> JString(""), sources |-> JArray(<<>>), error |-> Some(message) ])

\* what the statements after await fetch(...) throw: None when they throw nothing
ThrownAfterFetch(r) ==
    IF r.status = 0 THEN Some("Network request failed")
    ELSE IF ~Ok(r)
    THEN Some(OrElse(r.error, "API request failed: " \o ToString(r.status)))
    ELSE IF IsAbsent(r.content) THEN Some("No response content from AI")
    ELSE IF JSONparse(r.content[1]) = None THEN Some("JSON Parse error")
    ELSE IF JSONparse(r.content[1])[1].type = "null"
    THEN Some("Cannot read property of null")
    ELSE None

\* the services run and have not sent their request
BeforeFetch == call # None /\ call[1].fn \in Services /\ truncatedContent = None /\ outcome = None
\* the request is sent and fetch has not answered
AwaitingFetch == call # None /\ call[1].fn \in Services /\ truncatedContent # None /\ outcome = None

\* if (!OPENROUTER_API_KEY) throw new Error('OpenRouter API key not configured')
ServiceThrowsKey ==
    /\ BeforeFetch
    /\ call[1].key = ""
    /\ outcome' = Caught(call[1], "OpenRouter API key not configured")
    /\ UNCHANGED <<mcqVars, htmlVars, response, uiVars, article, screenVars, callVars>>

\* summarizeArticle: if (!content || content.length < 50) throw new Error(...)
ServiceThrowsShort ==
    /\ BeforeFetch
    /\ call[1].key # ""
    /\ call[1].fn = "summarizeArticle"
    /\ Len(call[1].content) < MinSummaryContent
    /\ outcome' = Caught(call[1], "Content too short to summarize")
    /\ UNCHANGED <<mcqVars, htmlVars, response, uiVars, article, screenVars, callVars>>

\* the prompt is written and fetch is called
ServiceSends ==
    /\ BeforeFetch
    /\ call[1].key # ""
    /\ call[1].fn = "summarizeArticle" => Len(call[1].content) >= MinSummaryContent
    /\ truncatedContent' = Some(IF call[1].fn = "generateAnswerFromNotes"
                                THEN notesContext(call[1].notes)
                                ELSE Truncated(call[1].content))
    /\ UNCHANGED <<mcqVars, htmlVars, response, outcome, uiVars, article, screenVars, call,
                   returned, routeVars>>

\* fetch rejects, or one of the statements after it throws
ServiceCatches ==
    /\ AwaitingFetch
    /\ ThrownAfterFetch(response) # None
    /\ outcome' = Caught(call[1], ThrownAfterFetch(response)[1])
    /\ UNCHANGED <<mcqVars, htmlVars, response, uiVars, article, screenVars, callVars>>

\* the completion is parsed and the result returned
ServiceReturns ==
    /\ AwaitingFetch
    /\ ThrownAfterFetch(response) = None
    /\ outcome' = Returned(Success(call[1], JSONparse(response.content[1])[1]))
    /\ UNCHANGED <<mcqVars, htmlVars, response, uiVars, article, screenVars, callVars>>

NextServices ==
    \/ ServiceThrowsKey \/ ServiceThrowsShort \/ ServiceSends \/ ServiceCatches
    \/ ServiceReturns

\* the calls: contents around the lengths of 50 and of 8000 characters, and
\* notes around the length of 1500 characters
ServiceContents ==
    { "", Repeat("a", MinSummaryContent - 1), Repeat("a", MinSummaryContent),
      Repeat("a", MaxPromptContent), Repeat("a", MaxPromptContent + 1) }
ServiceNotes ==
    { <<>>,
      <<[title |-> "Rivers", content |-> "The Nile is long.", source |-> ""]>>,
      <<[title |-> "Rivers", content |-> "The Nile is long.", source |-> "Atlas"],
        [title |-> "Cities", content |-> Repeat("b", MaxNoteContent + 1), source |-> ""]>> }
ServiceCalls ==
    [ fn : {"summarizeArticle", "analyzeForUPSC"}, key : {"", "sk-or-v1"},
      content : ServiceContents ]
    \cup [ fn : {"generateAnswerFromNotes"}, key : {"", "sk-or-v1"}, notes : ServiceNotes ]

\* data.choices?.[0]?.message?.content of the answer
ServiceCompletions ==
    { None, Some(""), Some("Here is the summary you asked for."), Some("null"), Some("5"),
      Some("{}"), Some("[\"GS1\", true]"), Some("{\"summary\": \"\", \"sources\": []}"),
      Some("{\"summary\": \"The Nile is long.\", \"keyPoints\": [\"Longest river\"], "
               \o "\"relevantTopics\": [], \"suggestedTags\": [\"GS1\"]}"),
      Some("{ \"answer\": \"The Nile is long.\",\n  \"sources\": [\"Atlas\"] }"),
      Some("{\"summary\": \"The Nile\", \"summary\": 12}"),
      Some("{\"summary\": \"The Nile\",}") }

\* what fetch answers: status 0 stands for its rejection
ServiceResponses ==
    {[status |-> 0, error |-> "", content |-> None]}
    \cup [status : {500}, error : {"", "Rate limit exceeded"}, content : {None}]
    \cup [status : {200}, error : {""}, content : ServiceCompletions]

InitSummarize ==
    /\ call \in {Some(c) : c \in ServiceCalls}
    /\ response \in ServiceResponses
    /\ truncatedContent = None
    /\ outcome = None
    /\ returned = {}
    /\ RouteAtRest
    /\ article = None
    /\ screen = "none"
    /\ runs = <<>>
    /\ selectedAnswers = <<>>
    /\ showResults = <<>>
    /\ stage = "idle"
    /\ errorMessage = ""
    /\ progress = 0
    /\ statusMessage = ""
    /\ screenMcqs = <<>>
    /\ isLoading = FALSE
    /\ error = ""
    /\ entries = <<>>
    /\ content = ""
    /\ parts = <<>>
    /\ i = 0
    /\ mcqs = <<>>
    /\ kept = <<>>
    /\ pc = "idle"
    /\ page = <<>>
    /\ html = ""
    /\ mainContent = ""
    /\ rp = 0
    /\ cleanHtml = ""
    /\ ph = 0
    /\ blocks = <<>>
    /\ hpc = "idle"

(***************************************************************************)
(* The callers: PDFGeneratorScreen with its handlers startProcess,         *)
(* handleOptionSelect and handleReset, AIMCQGeneratorScreen with           *)
(* handleGenerate, handleSelectAnswer and handleReset, and smartScrape.    *)
(* A handler runs from one await to the next in one step; the calls of     *)
(* startProcess that have not ended yet are in runs.                       *)
(***************************************************************************)
MAX_FILE_SIZE_MB == 20
\* mcqCount is '10': Math.min(200, Math.max(1, parseInt(mcqCount) || 10))
DefaultCount == 10
\* how many times startProcess is called
MaxRuns == 2

\* records as the backend sends them
SampleMcq ==
    [id |-> 1, question |-> "Which river is the longest river?",
     optionA |-> "Nile", optionB |-> "Amazon", optionC |-> "Ganga", optionD |-> "Indus",
     correctAnswer |-> "A", explanation |-> "It is the longest."]
SecondMcq ==
    [id |-> 2, question |-> "Which river flows through Cairo?",
     optionA |-> "Indus", optionB |-> "Nile", optionC |-> "Ganga", optionD |-> "Amazon",
     correctAnswer |-> "B", explanation |-> "Cairo lies on the Nile."]
\* the second record under the id of the first
SameIdMcq == [SecondMcq EXCEPT !.id = 1]

\* what generateMCQsFromPDF (lines 363-411) and generateMCQs (lines 1599-1660)
\* end with: an error thrown, or the list of the backend, which can be empty
\* and whose ids are the ones the backend has sent
PdfOutcomes ==
    { Thrown("Server Error: 500"), Thrown("Failed to generate MCQs"),
      Returned(<<>>), Returned(<<SampleMcq>>), Returned(<<SampleMcq, SecondMcq>>),
      Returned(<<SampleMcq, SameIdMcq>>) }
McqOutcomes ==
    { Thrown("Server Error: 500"), Thrown("Invalid response format from server"), Thrown(""),
      Returned(<<>>), Returned(<<SampleMcq>>), Returned(<<SampleMcq, SecondMcq>>) }

InitCallers ==
    /\ entries = <<>>
    /\ content = ""
    /\ parts = <<>>
    /\ i = 0
    /\ mcqs = <<>>
    /\ kept = <<>>
    /\ pc = "idle"
    /\ page = <<>>
    /\ html = ""
    /\ mainContent = ""
    /\ rp = 0
    /\ cleanHtml = ""
    /\ ph = 0
    /\ blocks = <<>>
    /\ hpc = "idle"
    /\ screen \in {"PDFGeneratorScreen", "AIMCQGeneratorScreen", "smartScrape"}
    /\ Unstarted

\* const isLoading = ['picking', 'reading', 'ocr', 'generating', 'parsing'].includes(stage)
Loading == stage \in {"picking", "reading", "ocr", "generating", "parsing"}

\* the run r of startProcess goes on to position
Moves(r, position) == runs' = [runs EXCEPT ![r] = position]

\* startProcess up to await pickFile(); its buttons are on the main screen
StartProcess ==
    /\ screen = "PDFGeneratorScreen"
    /\ ~Loading
    /\ Len(runs) < MaxRuns
    /\ runs' = Append(runs, "picking")
    /\ screenMcqs' = <<>>
    /\ selectedAnswers' = <<>>
    /\ showResults' = <<>>
    /\ errorMessage' = ""
    /\ stage' = "picking"
    /\ progress' = 5
    /\ statusMessage' = "Select a PDF file..."
    /\ UNCHANGED <<mcqVars, htmlVars, response, outcome, isLoading, error, article, screen,
                   callVars>>

\* the catch block of startProcess
Fail(message) ==
    /\ stage' = "error"
    /\ errorMessage' = OrElse(message, "Something went wrong")
    /\ statusMessage' = OrElse(message, "Error occurred")

\* if (fileResult.canceled) { setStage('idle'); return; }
PickCanceled ==
    /\ \E r \in DOMAIN runs : runs[r] = "picking" /\ Moves(r, "ended")
    /\ stage' = "idle"
    /\ UNCHANGED <<mcqVars, htmlVars, response, outcome, errorMessage, progress,
                   statusMessage, screenMcqs, isLoading, error, article, screen, answerVars,
                   callVars>>

\* throw new Error(fileResult.error || 'Failed to select file'), and the file
\* of more than MAX_FILE_SIZE_MB
PickFailed ==
    /\ \E r \in DOMAIN runs : runs[r] = "picking" /\ Moves(r, "ended")
    /\ \E message \in { "Failed to select file", "Permission denied",
                        "File too large (" \o ToString(MAX_FILE_SIZE_MB + 1) \o ".0MB). Maximum: "
                            \o ToString(MAX_FILE_SIZE_MB) \o "MB" } :
          Fail(message)
    /\ UNCHANGED <<mcqVars, htmlVars, response, outcome, progress, screenMcqs,
                   isLoading, error, article, screen, answerVars, callVars>>

\* the file is picked: up to await readFileAsBase64(pickedFile)
PickOk ==
    /\ \E r \in DOMAIN runs : runs[r] = "picking" /\ Moves(r, "reading")
    /\ stage' = "reading"
    /\ statusMessage' = "Reading file..."
    /\ progress' = 15
    /\ UNCHANGED <<mcqVars, htmlVars, response, outcome, errorMessage, screenMcqs,
                   isLoading, error, article, screen, answerVars, callVars>>

\* readFileAsBase64 rejects, or its result is empty
ReadFailed ==
    /\ \E r \in DOMAIN runs : runs[r] = "reading" /\ Moves(r, "ended")
    /\ \E message \in {"Failed to read file", "Failed to read file. Please try again."} :
          Fail(message)
    /\ UNCHANGED <<mcqVars, htmlVars, response, outcome, progress, screenMcqs,
                   isLoading, error, article, screen, answerVars, callVars>>

\* the file is read: up to await generateMCQsFromPDF(...)
ReadOk ==
    /\ \E r \in DOMAIN runs : runs[r] = "reading" /\ Moves(r, "generating")
    /\ stage' = "generating"
    /\ statusMessage' = "AI analyzing PDF and generating " \o ToString(DefaultCount) \o " MCQs..."
    /\ progress' = 40
    /\ UNCHANGED <<mcqVars, htmlVars, response, outcome, errorMessage, screenMcqs,
                   isLoading, error, article, screen, answerVars, callVars>>

\* lines 673-699: after generateMCQsFromPDF has thrown or returned
PdfGenerated ==
    /\ \E r \in DOMAIN runs : runs[r] = "generating" /\ Moves(r, "ended")
    /\ \E out \in PdfOutcomes :
          /\ outcome' = out
          /\ IF out[1].kind = "thrown"
             THEN Fail(out[1].message) /\ UNCHANGED <<progress, screenMcqs>>
             ELSE IF Len(out[1].value) = 0
             THEN /\ Fail("Could not generate MCQs. Please try a different PDF.")
                  /\ progress' = 90
                  /\ UNCHANGED screenMcqs
             ELSE /\ screenMcqs' = out[1].value
                  /\ progress' = 100
                  /\ stage' = "complete"
                  /\ statusMessage' = "Generated " \o ToString(Len(out[1].value)) \o " MCQs"
                  /\ UNCHANGED errorMessage
    /\ UNCHANGED <<mcqVars, htmlVars, response, isLoading, error, article, screen, answerVars,
                   callVars>>

\* { ...prev, [mcqId]: value }
With(prev, mcqId, value) ==
    [k \in DOMAIN prev \cup {mcqId} |-> IF k = mcqId THEN value ELSE prev[k]]

\* showResults[mcqId], selectedAnswers[mcqId]: undefined is falsy
Revealed(mcqId) == mcqId \in DOMAIN showResults /\ showResults[mcqId]
Selected(mcqId) == IF mcqId \in DOMAIN selectedAnswers THEN Some(selectedAnswers[mcqId]) ELSE None

\* variant: the handler without its first line
SelectAlways(mcqId, option) ==
    /\ selectedAnswers' = With(selectedAnswers, mcqId, option)
    /\ showResults' = With(showResults, mcqId, TRUE)
\* the body of handleOptionSelect and of handleSelectAnswer
SelectOption(mcqId, option) ==
    IF Revealed(mcqId)
    THEN UNCHANGED answerVars
    ELSE /\ selectedAnswers' = With(selectedAnswers, mcqId, option)
         /\ showResults' = With(showResults, mcqId, TRUE)

\* handleOptionSelect(mcq.id, opt) from the card n of the list
HandleOptionSelect ==
    /\ screen = "PDFGeneratorScreen"
    /\ ~Loading
    /\ \E n \in DOMAIN screenMcqs, opt \in {"A", "B"} : SelectOption(screenMcqs[n].id, opt)
    /\ UNCHANGED <<mcqVars, htmlVars, response, outcome, uiVars, article, screen, runs, callVars>>

\* handleReset of PDFGeneratorScreen, from Cancel of the loading screen and
\* from Reset above the cards
HandleReset ==
    /\ screen = "PDFGeneratorScreen"
    /\ Loading \/ screenMcqs # <<>>
    /\ stage' = "idle"
    /\ screenMcqs' = <<>>
    /\ selectedAnswers' = <<>>
    /\ showResults' = <<>>
    /\ progress' = 0
    /\ errorMessage' = ""
    /\ statusMessage' = ""
    /\ UNCHANGED <<mcqVars, htmlVars, response, outcome, isLoading, error, article, screen, runs,
                   callVars>>

\* getScore()
getScore ==
    LET answered == {n \in DOMAIN screenMcqs : Selected(screenMcqs[n].id) # None}
        correct == {n \in answered :
                       Selected(screenMcqs[n].id) = Some(screenMcqs[n].correctAnswer)}
    IN  [correct |-> Cardinality(correct), answered |-> Cardinality(answered)]

\* handleGenerate up to await generateMCQs(...); its button is in the form,
\* which shows while mcqs is empty and nothing loads
HandleGenerate ==
    /\ screen = "AIMCQGeneratorScreen"
    /\ ~isLoading
    /\ screenMcqs = <<>>
    /\ isLoading' = TRUE
    /\ error' = ""
    /\ screenMcqs' = <<>>
    /\ selectedAnswers' = <<>>
    /\ showResults' = <<>>
    /\ UNCHANGED <<mcqVars, htmlVars, response, outcome, stage, errorMessage, progress,
                   statusMessage, article, screen, runs, callVars>>

\* lines 1692-1703: after generateMCQs has thrown or returned
McqsGenerated ==
    /\ isLoading
    /\ \E out \in McqOutcomes :
          /\ outcome' = out
          /\ IF out[1].kind = "thrown"
             THEN error' = OrElse(out[1].message, "Failed to generate MCQs") /\ UNCHANGED screenMcqs
             ELSE IF Len(out[1].value) = 0
             THEN error' = "No MCQs could be generated. Please try again." /\ UNCHANGED screenMcqs
             ELSE screenMcqs' = out[1].value /\ UNCHANGED error
    /\ isLoading' = FALSE
    /\ UNCHANGED <<mcqVars, htmlVars, response, stage, errorMessage, progress,
                   statusMessage, article, screenVars, callVars>>

\* handleSelectAnswer(mcq.id, opt) from the card n of the list
HandleSelectAnswer ==
    /\ screen = "AIMCQGeneratorScreen"
    /\ ~isLoading
    /\ \E n \in DOMAIN screenMcqs, opt \in {"A", "B"} : SelectOption(screenMcqs[n].id, opt)
    /\ UNCHANGED <<mcqVars, htmlVars, response, outcome, uiVars, article, screen, runs, callVars>>

\* handleReset of AIMCQGeneratorScreen, from the buttons next to the cards
HandleResetMcqs ==
    /\ screen = "AIMCQGeneratorScreen"
    /\ ~isLoading
    /\ screenMcqs # <<>>
    /\ screenMcqs' = <<>>
    /\ selectedAnswers' = <<>>
    /\ showResults' = <<>>
    /\ error' = ""
    /\ UNCHANGED <<mcqVars, htmlVars, response, outcome, stage, errorMessage, progress,
                   statusMessage, isLoading, article, screen, runs, callVars>>

\* the documents fetched have neither a title element nor meta elements:
\* title is '' and cleanedTitle || 'Untitled' is 'Untitled', metaDescription
\* is '', author, publishedDate and featuredImage are undefined (None)
ScrapedArticle(text, list, err) ==
    [ title |-> IF err = None THEN "Untitled" ELSE "Error",
      content |-> text, contentBlocks |-> list, error |-> err ]

\* b.items ? b.items.join('\n') : b.content
PlainOf(b) == IF b.items # Undefined THEN JoinWith(b.items, "\n") ELSE b.content

\* contentBlocks.map(...).filter(c => c).join('\n\n')
plainContent ==
    JoinWith(SelectSeq([n \in 1..Len(contentBlocks) |-> PlainOf(contentBlocks[n])],
                       LAMBDA c : c # ""),
             "\n\n")

\* lines 113-146: fetch has answered with a document, up to the call of
\* extractMainContent
ScrapeFetched ==
    /\ screen = "smartScrape"
    /\ hpc = "idle"
    /\ \E pg \in BlockPages :
          /\ page' = pg
          /\ html' = Document(pg.pieces, pg.wrap)
          /\ mainContent' = Document(pg.pieces, pg.wrap)
          /\ response' = [status |-> 200, content |-> Some(Document(pg.pieces, pg.wrap))]
    /\ rp' = 0
    /\ hpc' = "remove"
    /\ UNCHANGED <<mcqVars, cleanHtml, ph, blocks, outcome, uiVars, article, screenVars,
                   callVars>>

\* the catch block of smartScrape: fetch has rejected, or response.ok is false
ScrapeFailed ==
    /\ screen = "smartScrape"
    /\ hpc = "idle"
    /\ \E failure \in { [status |-> 404, message |-> "Failed to fetch: 404"],
                        [status |-> 500, message |-> "Failed to fetch: 500"],
                        [status |-> 0, message |-> "Network request failed"] } :
          /\ response' = [status |-> failure.status, content |-> None]
          /\ article' = Some(ScrapedArticle("", <<>>, Some(failure.message)))
    /\ hpc' = "returned"
    /\ UNCHANGED <<mcqVars, page, html, mainContent, rp, cleanHtml, ph, blocks, outcome, uiVars,
                   screenVars, callVars>>

\* lines 149-179: the blocks are there, the article is returned
ScrapeReturns ==
    /\ hpc = "done"
    /\ response # None
    /\ article' = Some(ScrapedArticle(plainContent, contentBlocks, None))
    /\ hpc' = "returned"
    /\ UNCHANGED <<mcqVars, page, html, mainContent, rp, cleanHtml, ph, blocks,
                   response, outcome, uiVars, screenVars, callVars>>

NextCallers ==
    \/ StartProcess \/ PickCanceled \/ PickFailed \/ PickOk \/ ReadFailed \/ ReadOk
    \/ PdfGenerated \/ HandleOptionSelect \/ HandleReset
    \/ HandleGenerate \/ McqsGenerated \/ HandleSelectAnswer \/ HandleResetMcqs
    \/ ScrapeFetched \/ ScrapeFailed
    \/ RemovePattern \/ Select \/ Clean \/ ExtractBlocks \/ ReturnBlocks
    \/ ScrapeReturns

SpecCallers == InitCallers /\ [][NextCallers]_vars

(***************************************************************************)
(* parseMCQResponse, and extractMainContent followed by parseHtmlToBlocks, *)
(* called again and again: a call begins in the state the call before it   *)
(* has left                                                                *)
(***************************************************************************)
\* how many times each of the two is called
MaxCalls == 3

RiverEntry(n, stem, d, ans) ==
    [n |-> n, stem |-> stem, a |-> Some("Nile"), b |-> Some("Amazon"), c |-> Some("Ganga"),
     d |-> d, ans |-> ans, expl |-> ans]

\* a completion of one record, one of two records, and one of three segments
\* that give no record
RepeatInputs ==
    { <<RiverEntry(1, "Which river is the longest river?", Some("Indus"), Some("B"))>>,
      <<RiverEntry(1, "Which river is the longest river?", Some("Indus"), Some("A")),
        RiverEntry(2, "Which river flows through Cairo?", Some("Indus"), Some("A"))>>,
      <<RiverEntry(1, "Why so?", Some("Indus"), Some("B")),
        RiverEntry(2, "Which river is the longest river?", None, Some("B")),
        RiverEntry(3, "Pick a river", Some("Indus"), None)>> }

RepeatPages ==
    { [pieces |-> <<Piece("<h2>One</h2><p>" \o FirstParagraph \o "</p>", <<>>)>>, wrap |-> "all"],
      [pieces |-> <<Piece("<nav>SKIP</nav>", <<>>),
                    Piece("<ul><li>one</li><li>two</li></ul>", <<>>)>>, wrap |-> "none"] }

\* the first call is one of parseMCQResponse or one of extractMainContent
InitRepeat ==
    /\ \/ /\ entries \in RepeatInputs
          /\ content = RenderAll(entries)
          /\ pc = "start"
          /\ page = <<>>
          /\ html = ""
          /\ hpc = "idle"
       \/ /\ entries = <<>>
          /\ content = ""
          /\ pc = "idle"
          /\ page \in RepeatPages
          /\ html = Document(page.pieces, page.wrap)
          /\ hpc = "remove"
    /\ parts = <<>>
    /\ i = 0
    /\ mcqs = <<>>
    /\ kept = <<>>
    /\ mainContent = html
    /\ rp = 0
    /\ cleanHtml = ""
    /\ ph = 0
    /\ blocks = <<>>
    /\ NoCaller

\* the functions are synchronous: the next call begins when the one before
\* it has returned
HasReturnedRecords == pc = "done" /\ hpc = "idle"
HasReturnedBlocks == pc = "idle" /\ hpc = "done"

\* the call that has returned is written down
CallReturned ==
    /\ HasReturnedRecords \/ HasReturnedBlocks
    /\ Cardinality(returned) + 1 < MaxCalls
    /\ returned' = returned \cup {
          IF HasReturnedRecords
          THEN [fn |-> "parseMCQResponse", n |-> Cardinality(returned) + 1,
                argument |-> content, result |-> mcqs]
          ELSE [fn |-> "parseHtmlToBlocks", n |-> Cardinality(returned) + 1,
                argument |-> html, result |-> blocks] }

\* parseMCQResponse is called with the next completion
ParseAgain ==
    /\ CallReturned
    /\ \E next \in RepeatInputs :
          /\ entries' = next
          /\ content' = RenderAll(next)
    /\ pc' = "start"
    /\ hpc' = "idle"
    /\ UNCHANGED <<parts, i, mcqs, kept, page, html, mainContent, rp, cleanHtml, ph, blocks,
                   response, outcome, uiVars, article, screenVars, call, truncatedContent, routeVars>>

\* extractMainContent is called with the next document: let content = html,
\* and the loop over removePatterns begins
ScrapeAgain ==
    /\ CallReturned
    /\ \E next \in RepeatPages :
          /\ page' = next
          /\ html' = Document(next.pieces, next.wrap)
          /\ mainContent' = Document(next.pieces, next.wrap)
    /\ rp' = 0
    /\ hpc' = "remove"
    /\ pc' = "idle"
    /\ UNCHANGED <<entries, content, parts, i, mcqs, kept, cleanHtml, ph, blocks,
                   response, outcome, uiVars, article, screenVars, call, truncatedContent, routeVars>>

NextRepeat == Next \/ NextHtml \/ ParseAgain \/ ScrapeAgain

SpecRepeat == InitRepeat /\ [][NextRepeat]_vars

(***************************************************************************)
(* The functions that call a service, one call of one of them              *)
(***************************************************************************)
InitScrape == InitCallers /\ screen = "smartScrape"

InitFunctions == InitGenerate \/ InitSummarize \/ InitScrape

NextScrape ==
    \/ ScrapeFetched \/ ScrapeFailed
    \/ RemovePattern \/ Select \/ Clean \/ ExtractBlocks \/ ReturnBlocks
    \/ ScrapeReturns

NextFunctions == NextGenerate \/ NextServices \/ NextScrape

SpecFunctions == InitFunctions /\ [][NextFunctions]_vars

(***************************************************************************)
(* Properties of parseMCQResponse                                          *)
(***************************************************************************)
Range(f) == {f[x] : x \in DOMAIN f}
Letters == {"A", "B", "C", "D"}

\* the body of the j-th segment of the split input
BodyOf(j) == parts[2 * j + 1]
NumSegments == (Len(parts) - 1) \div 2

\* the segment reaches mcqs.push
Validates(qc) == ~TooShort(qc) /\ ~NoQuestion(qc) /\ ~MissingOption(qc)

AllOptionsPresent(r) ==
    r.optionA # "" /\ r.optionB # "" /\ r.optionC # "" /\ r.optionD # ""

\* C1: every record has a non-empty question and four non-empty options, and
\* a segment with an empty extracted option has no record.
C1_RecordsComplete ==
    /\ \A k \in 1..Len(mcqs) : mcqs[k].question # "" /\ AllOptionsPresent(mcqs[k])
    /\ pc = "done" =>
          \A j \in 1..NumSegments :
              ( \/ extractOption(BodyOf(j), "A", "B") = ""
                \/ extractOption(BodyOf(j), "B", "C") = ""
                \/ extractOption(BodyOf(j), "C", "D") = ""
                \/ extractOption(BodyOf(j), "D", "Correct") = "" )
                  => j \notin Range(kept)

C1_Witness ==
    /\ pc = "done"
    /\ Len(entries) = 3
    /\ entries[2].c = None
    /\ kept = <<1, 3>>
    /\ Len(mcqs) = 2

\* an entry written exactly after the output format of the prompt
IsTemplateEntry(e) ==
    /\ e.stem # ""
    /\ \A f \in {e.a, e.b, e.c, e.d, e.expl} : f # None /\ f[1] # ""
    /\ e.ans # None /\ e.ans[1] \in Letters

TemplateInput ==
    /\ Len(entries) = 1
    /\ IsTemplateEntry(entries[1])
    /\ content = Render(entries[1])

OneRecordOfTemplate ==
    /\ Len(mcqs) = 1
    /\ AllOptionsPresent(mcqs[1])
    /\ mcqs[1].id = entries[1].n

\* C2 as stated: an input that is one entry of the template gives exactly one
\* record, with four non-empty options and the id of the marker.
C2_Original == (pc = "done" /\ TemplateInput) => OneRecordOfTemplate

\* C2 amended: ... provided the stem has at least 10 characters.
C2_TemplateWithLongStem ==
    (pc = "done" /\ TemplateInput /\ Len(entries[1].stem) >= 10) => OneRecordOfTemplate

C2_Witness ==
    /\ pc = "done"
    /\ TemplateInput
    /\ entries[1].n = 7
    /\ entries[1].stem = "Pick a river"
    /\ Len(mcqs) = 1
    /\ mcqs[1].id = 7

\* C3 as stated: a segment without a "C." line has no record, whatever else
\* it holds, so there are fewer records than segments.
C3_NoOptionCNoRecord ==
    pc = "done" =>
        /\ \A j \in 1..Len(entries) : entries[j].c = None => j \notin Range(kept)
        /\ (\E j \in 1..Len(entries) : entries[j].c = None) => Len(mcqs) < NumSegments

\* C4 as stated: the explanation of a record is never empty or only whitespace.
C4_ExplanationPopulated ==
    \A k \in 1..Len(mcqs) : Trim(mcqs[k].explanation) # ""

\* C5: correctAnswer of every record is one of the upper-case letters A, B, C, D.
C5_AnswerLetter ==
    \A k \in 1..Len(mcqs) : mcqs[k].correctAnswer \in Letters

C5_Witness ==
    /\ pc = "done"
    /\ Len(entries) = 1
    /\ entries[1].ans = Some("c")
    /\ Len(mcqs) = 1
    /\ mcqs[1].correctAnswer = "C"

\* the records pushed for segment j
RecordsOfSegment(j) == {mcqs[k] : k \in {x \in 1..Len(mcqs) : kept[x] = j}}

AnswerIsA(r) == r.correctAnswer = "A"

\* C6 as stated: a validated segment without a "Correct Answer:" line has a
\* record, and its correctAnswer is 'A'.
C6_Original ==
    pc = "done" =>
        \A j \in 1..Len(entries) :
            (Validates(BodyOf(j)) /\ entries[j].ans = None) => \E r \in RecordsOfSegment(j) : AnswerIsA(r)

\* C6 amended: a validated segment in which "Correct Answer" followed by a
\* letter A-D occurs nowhere (on no line of its own and inside no other text)
\* has a record, and its correctAnswer is 'A'.
C6_DefaultAnswer ==
    pc = "done" =>
        \A j \in 1..NumSegments :
            ( /\ Validates(BodyOf(j))
              /\ \A p \in 1..Len(BodyOf(j)) : CorrectAnswerAt(BodyOf(j), p) = None )
                => \E r \in RecordsOfSegment(j) : AnswerIsA(r)

C6_Witness ==
    /\ pc = "done"
    /\ Len(entries) = 1
    /\ entries[1].ans = None
    /\ entries[1].stem = "Which river is the longest river?"
    /\ Len(mcqs) = 1
    /\ mcqs[1].correctAnswer = "A"

ExplanationIsDefault(r) ==
    r.explanation = "The correct answer is " \o r.correctAnswer \o "."

\* C7 as stated: a validated segment without an "Explanation:" line has a
\* record whose explanation is "The correct answer is {letter}.".
C7_Original ==
    pc = "done" =>
        \A j \in 1..Len(entries) :
            (Validates(BodyOf(j)) /\ entries[j].expl = None)
                => \E r \in RecordsOfSegment(j) : ExplanationIsDefault(r)

\* C7 amended: a validated segment in which the word "Explanation" followed
\* by at least one more character occurs nowhere has a record whose
\* explanation is "The correct answer is {letter}.".
C7_DefaultExplanation ==
    pc = "done" =>
        \A j \in 1..NumSegments :
            ( /\ Validates(BodyOf(j))
              /\ \A p \in 1..Len(BodyOf(j)) : ExplanationAt(BodyOf(j), p) = None )
                => \E r \in RecordsOfSegment(j) : ExplanationIsDefault(r)

C7_Witness ==
    /\ pc = "done"
    /\ Len(entries) = 1
    /\ entries[1].expl = None
    /\ entries[1].ans = Some("B")
    /\ Len(mcqs) = 1
    /\ mcqs[1].explanation = "The correct answer is B."

\* C8: the records are the validated segments in the order of their markers,
\* each with the number of its own marker, one record per segment even when
\* two markers carry the same number.
C8_OrderAndIds ==
    pc = "done" =>
        /\ NumSegments = Len(entries)
        /\ Len(mcqs) = Len(kept)
        /\ \A k \in 1..Len(mcqs) :
              /\ mcqs[k].id = entries[kept[k]].n
              /\ mcqs[k].question = entries[kept[k]].stem
        /\ \A k1, k2 \in 1..Len(kept) : k1 < k2 => kept[k1] < kept[k2]
        /\ \A j \in 1..NumSegments : (j \in Range(kept)) <=> Validates(BodyOf(j))

C8_Witness ==
    /\ pc = "done"
    /\ Len(entries) = 3
    /\ Len(mcqs) = 3
    /\ mcqs[1].id = 2 /\ mcqs[2].id = 1 /\ mcqs[3].id = 2

(***************************************************************************)
(* Properties of extractMainContent and parseHtmlToBlocks                  *)
(***************************************************************************)
\* the group of a block type: headings, paragraphs, lists, quotes
Rank(type) ==
    CASE type = "heading" -> 1
      [] type = "paragraph" -> 2
      [] type \in {"ordered-list", "unordered-list"} -> 3
      [] type = "quote" -> 4

KindOf(type) ==
    CASE type = "heading" -> "heading"
      [] type = "paragraph" -> "paragraph"
      [] type \in {"ordered-list", "unordered-list"} -> "list"
      [] type = "quote" -> "quote"

Kinds == {"heading", "paragraph", "list", "quote"}

\* the elements of the document in source order
SourceElements == Flatten([n \in 1..Len(page.pieces) |-> page.pieces[n].elems])

\* the texts of the elements of one kind, in source order
SourceTexts(kind) ==
    LET es == SelectSeq(SourceElements, LAMBDA e : e.kind = kind)
    IN  [n \in 1..Len(es) |-> es[n].text]

\* the contents of the blocks of one kind, in the order of the output
BlockTexts(kind) ==
    LET bs == SelectSeq(blocks, LAMBDA b : KindOf(b.type) = kind)
    IN  [n \in 1..Len(bs) |-> bs[n].content]

\* a is b with some of its members left out
RECURSIVE IsSubsequence(_, _)
IsSubsequence(a, b) ==
    IF a = <<>> THEN TRUE
    ELSE IF b = <<>> THEN FALSE
    ELSE IF a[1] = b[1] THEN IsSubsequence(Tail(a), Tail(b))
    ELSE IsSubsequence(a, Tail(b))

\* <h2>, <p>, <h2> one after the other
InterleavedPage ==
    /\ page.wrap = "none"
    /\ Len(page.pieces) = 2
    /\ page.pieces[1].html = "<h2>One</h2><p>" \o FirstParagraph \o "</p>"
    /\ page.pieces[2].html = "<h2>Alpha</h2>"

\* C9: the blocks are grouped by type, headings first, then paragraphs, then
\* lists, then quotes, wherever the elements stand in the document; inside
\* each group the blocks are in source order; for <h2>, <p>, <h2> both
\* headings come before the paragraph.
C9_GroupedByType ==
    /\ \A m, n \in 1..Len(blocks) : m < n => Rank(blocks[m].type) <= Rank(blocks[n].type)
    /\ \A kind \in Kinds : IsSubsequence(BlockTexts(kind), SourceTexts(kind))
    /\ (hpc = "done" /\ InterleavedPage) =>
          blocks = << [type |-> "heading", level |-> 2, content |-> "One"],
                      [type |-> "heading", level |-> 2, content |-> "Alpha"],
                      [type |-> "paragraph", content |-> FirstParagraph] >>

C9_Witness ==
    /\ hpc = "done"
    /\ InterleavedPage
    /\ Len(blocks) = 3
    /\ blocks[1].content = "One"
    /\ blocks[2].content = "Alpha"
    /\ blocks[3].type = "paragraph"

Contains(s, lit) ==
    \E k \in 1..(Len(s) - Len(lit) + 1) : SubSeq(s, k, k + Len(lit) - 1) = lit

\* the word that the documents have only inside nav, header, footer and aside
Boilerplate == "SKIP"

\* "<nav>SKIP</nav><article><h1>T</h1><p>" + 25 x's + "</p></article>"
ExamplePage ==
    /\ page.wrap = "tail"
    /\ Len(page.pieces) = 2
    /\ page.pieces[1].html = "<nav>SKIP</nav>"
    /\ page.pieces[2].html = "<h1>T</h1><p>" \o LongText \o "</p>"

\* C10: text that stands only inside a nav, header, footer or aside element
\* is in no block that extractMainContent followed by parseHtmlToBlocks
\* produces; the example document gives one heading "T" of level 1 followed
\* by one paragraph.
C10_BoilerplateNeverAppears ==
    hpc = "done" =>
        /\ \A n \in 1..Len(blocks) : ~Contains(blocks[n].content, Boilerplate)
        /\ ExamplePage =>
              blocks = << [type |-> "heading", level |-> 1, content |-> "T"],
                          [type |-> "paragraph", content |-> LongText] >>

\* some block has the word in its content or in one of its items
Emitted(word) ==
    \E n \in 1..Len(blocks) :
        \/ Contains(blocks[n].content, word)
        \/ /\ "items" \in DOMAIN blocks[n]
           /\ \E m \in 1..Len(blocks[n].items) : Contains(blocks[n].items[m], word)

\* C11: a div whose class attribute has one of sidebar, advertisement, ads,
\* comments, related, social, share is removed whole: no text between its
\* opening tag and its own closing tag is in a block, also when the div
\* contains a nested div followed by further content.
C11_BoilerplateDivRemoved == hpc = "done" => ~Emitted("SIDE")

\* C12: for a div of class ad-banner nested inside an article, none of the
\* text of the div is in a block, whether the div holds bare text or a
\* paragraph of more than 20 characters.
C12_AdBannerAbsent == (hpc = "done" /\ page.wrap = "all") => ~Emitted("ignore")

\* the document with its scripts, style blocks and comments taken out
WithoutInertMarkup(h) == RemoveAll(RemoveScriptsAndStyles(h), "comment")

\* C13: scripts, style blocks and comments are removed first, then the
\* boilerplate containers, then the body is selected: markup that stands
\* only inside a script, a style block or a comment changes nothing of what
\* is removed or selected, so the blocks are those of the document without
\* its scripts, style blocks and comments.
C13_InertMarkupRemovedFirst ==
    hpc = "done" => blocks = parseHtmlToBlocks(extractMainContent(WithoutInertMarkup(html)))

\* the document after the removal loop of extractMainContent
Cleaned == AfterPatterns(html, Len(removePatterns))

\* the body of the first element of the name: the text from the end of the
\* first opening tag to the next closing tag; None without such an element
BodyOfFirst(c, name) ==
    LET k == IndexFrom(c, 1, "<" \o name)
        g == IF k = 0 THEN 0 ELSE IndexFrom(c, k + Len(name) + 1, ">")
        e == IF g = 0 THEN 0 ELSE IndexFrom(c, g + 1, "</" \o name \o ">")
    IN  IF e = 0 THEN None ELSE Some(SubSeq(c, g + 1, e - 1))

ExpectedBody(c) ==
    IF BodyOfFirst(c, "article") # None THEN BodyOfFirst(c, "article")[1]
    ELSE IF BodyOfFirst(c, "main") # None THEN BodyOfFirst(c, "main")[1]
    ELSE c

PageIs(ps) == page.wrap = "none" /\ page.pieces = ps
ParagraphOnly(text) == blocks = << [type |-> "paragraph", content |-> text] >>

OnlyCasedDivs ==
    \A n \in 1..Len(page.pieces) : page.pieces[n] \in {CasedSidebarPiece, CasedAdsPiece}

\* C15 as stated: the vocabulary is matched case-sensitively: a div whose
\* class has a vocabulary word only in another letter case (class="Sidebar",
\* class="ADS") is not removed by extractMainContent, and its content stays
\* available for block extraction.
C15_Original ==
    OnlyCasedDivs =>
        /\ hpc \in {"clean", "extract", "done"} => Contains(mainContent, "CASED")
        /\ hpc = "done" => Emitted("CASED")

\* C15 amended: the vocabulary is matched without regard to letter case: a
\* div whose class has a vocabulary word in another letter case is removed
\* like one that has the word as written, and its content is in no block.
C15_CaseInsensitive ==
    /\ hpc \in {"clean", "extract", "done"} => ~Contains(mainContent, "CASED")
    /\ hpc = "done" => ~Emitted("CASED")

C15_Witness ==
    /\ hpc = "done"
    /\ PageIs(<<CasedSidebarPiece, LivePiece>>)
    /\ mainContent = "<p>" \o LiveParagraph \o "</p>"
    /\ ParagraphOnly(LiveParagraph)

(***************************************************************************)
(* Properties of the blocks                                                *)
(***************************************************************************)
NonEmptyTexts(texts) == SelectSeq(texts, LAMBDA t : t # "")

ShapeOf(b) ==
    /\ b.type \in {"heading", "paragraph", "bullet", "numbered", "quote"}
    /\ b.content # ""
    /\ b.type = "heading" => (b.level \in 1..6 /\ b.items = Undefined)
    /\ b.type \in {"paragraph", "quote"} => (b.level = Undefined /\ b.items = Undefined)
    /\ b.type \in {"bullet", "numbered"} =>
          /\ b.level = Undefined
          /\ b.items # Undefined
          /\ Len(b.items) > 0
          /\ \A m \in 1..Len(b.items) : b.items[m] # ""
          /\ b.content = JoinWith(b.items, ", ")

\* C16: every block of the HTML path has the shape of a ContentBlock: a
\* heading has text and a level from 1 to 6; a paragraph or a quote has text
\* and neither level nor items; a list has at least one item, no empty item,
\* and the items joined as its text; an element with no text left after the
\* tags are stripped gives no block.
C16_BlockShape ==
    /\ \A n \in 1..Len(contentBlocks) : ShapeOf(contentBlocks[n])
    /\ hpc = "done" =>
          /\ BlockTexts("heading") = NonEmptyTexts(SourceTexts("heading"))
          /\ BlockTexts("list") = NonEmptyTexts(SourceTexts("list"))
          /\ BlockTexts("quote") = NonEmptyTexts(SourceTexts("quote"))
          /\ IsSubsequence(BlockTexts("paragraph"), NonEmptyTexts(SourceTexts("paragraph")))

C16_Witness ==
    /\ hpc = "done"
    /\ PageIs(<< Piece("<ol><li>one</li><li></li><li><a href=\"#\">two</a></li></ol>",
                       <<Element("list", "one, two")>>),
                 Piece("<h4><span></span></h4>", <<Element("heading", "")>>) >>)
    /\ contentBlocks = << [type |-> "numbered", content |-> "one, two", level |-> Undefined,
                           items |-> <<"one", "two">>] >>

\* C17: a p element gives a paragraph block exactly when its text, tags
\* stripped and trimmed, is longer than 20 characters: 20 characters or
\* fewer never do, 21 or more always do.
C17_ParagraphThreshold ==
    /\ \A n \in 1..Len(blocks) : blocks[n].type = "paragraph" => Len(blocks[n].content) > 20
    /\ hpc = "done" =>
          BlockTexts("paragraph") = SelectSeq(SourceTexts("paragraph"), LAMBDA t : Len(t) >= 21)

C17_Witness ==
    /\ hpc = "done"
    /\ PageIs(<< Piece("<p> <b>Exactly</b> twenty chars <br/></p>",
                       <<Element("paragraph", TwentyChars)>>),
                 Piece("<P class=\"lead\"><i>Exactly</i> twenty chars.\n</P>",
                       <<Element("paragraph", TwentyOneChars)>>) >>)
    /\ ParagraphOnly(TwentyOneChars)
    /\ Len(TwentyChars) = 20
    /\ Len(TwentyOneChars) = 21

(***************************************************************************)
(* Properties of the segment length test                                   *)
(***************************************************************************)
\* the text the j-th entry was written with, from the end of its marker to
\* the next marker or the end of the input
WrittenBody(j) ==
    LET marker == "Question " \o ToString(entries[j].n) \o ":"
        own == SubSeq(Render(entries[j]), Len(marker) + 1, Len(Render(entries[j])))
    IN  IF j < Len(entries) THEN own \o "\n\n" ELSE own

\* the entry passes the validation: its four options are written and its
\* stem has 10 characters or more
WellFormed(e) == Len(e.stem) >= 10 /\ e.d # None

\* C18: a segment whose body, the text between its marker and the next
\* marker or the end of the input, is shorter than 50 characters gives no
\* record and does not reach the extraction of stem and options; a body of
\* 50 characters or more is always handed to the extraction.
C18_ShortBodyDropped ==
    /\ InLoop =>
          /\ questionContent = WrittenBody((i + 1) \div 2)
          /\ Len(questionContent) < 50 <=> TooShort(questionContent)
    /\ pc = "done" =>
          \A j \in 1..Len(entries) :
              /\ Len(WrittenBody(j)) < 50 => j \notin Range(kept)
              /\ (Len(WrittenBody(j)) >= 50 /\ WellFormed(entries[j])) => j \in Range(kept)

C18_Witness ==
    /\ pc = "done"
    /\ Len(entries) = 2
    /\ \A j \in 1..2 :
          /\ entries[j].stem = "Pick a river" /\ entries[j].d # None
          /\ entries[j].ans = None /\ entries[j].expl = None
    /\ Len(BodyOf(1)) = 51
    /\ Len(BodyOf(2)) = 49
    /\ kept = <<1>>

(***************************************************************************)
(* Properties of generateMCQsWithAI                                        *)
(***************************************************************************)
HasThrown == outcome # None /\ outcome[1].kind = "thrown"
HasReturned == outcome # None /\ outcome[1].kind = "returned"

\* no completion was received: the request failed, or the completion is
\* absent or empty
NothingReceived == ~Ok(response) \/ response.content = None \/ response.content = Some("")

\* C19: parseMCQResponse throws for no input: content that cannot be parsed
\* gives dropped segments and at worst the empty list, a normal return
\* value. generateMCQsWithAI throws when the completion is absent or empty;
\* a completion that is there and parses to no record is returned as the
\* empty list, with no error.
C19_ParserNeverThrows ==
    /\ pc \in {"start", "loop", "done"} => (outcome = None /\ ~NothingReceived)
    /\ pc = "thrown" => (HasThrown /\ NothingReceived)
    /\ pc = "returned" => (HasReturned /\ ~NothingReceived /\ outcome[1].value = mcqs)
    /\ HasThrown => pc = "thrown"
    /\ HasReturned => pc = "returned"

C19_Witness ==
    /\ pc = "returned"
    /\ response.content = Some("Sorry, I cannot help with that.")
    /\ outcome = Returned(<<>>)

(***************************************************************************)
(* Properties of the callers                                               *)
(***************************************************************************)
\* the generating function has returned the empty list
ZeroRecords == outcome = Returned(<<>>)
\* smartScrape has returned for a document that is not empty and has no block
ZeroBlocks == article # None /\ Ok(response) /\ html # "" /\ blocks = <<>>

\* C20: when no record is produced the screen reports a failure and does not
\* complete: startProcess ends in stage 'error' with an error message,
\* handleGenerate sets error; when no block is extracted from a document that
\* is not empty, smartScrape reports a failure in its error field.
C20_ZeroResultsReported ==
    /\ (screen = "PDFGeneratorScreen" /\ ZeroRecords /\ runs = <<"ended">>) =>
          (stage = "error" /\ errorMessage # "" /\ screenMcqs = <<>>)
    /\ (screen = "AIMCQGeneratorScreen" /\ ZeroRecords /\ ~isLoading) =>
          (error # "" /\ screenMcqs = <<>>)
    /\ ZeroBlocks => article[1].error # None

(***************************************************************************)
(* Properties of the functions that call a service                         *)
(***************************************************************************)
Calls(fn) == call # None /\ call[1].fn = fn

\* C21: the article content that summarizeArticle and analyzeForUPSC put in
\* their prompt is never longer than 8000 characters, and the completion
\* that generateMCQsWithAI hands to parseMCQResponse is never longer than
\* MAX_TEXT_LENGTH characters.
C21_InputsBounded ==
    /\ ((Calls("summarizeArticle") \/ Calls("analyzeForUPSC")) /\ truncatedContent # None) =>
          Len(truncatedContent[1]) <= MaxPromptContent
    /\ Calls("generateMCQsWithAI") => Len(content) <= MAX_TEXT_LENGTH

\* the call of a service fails: no key, content too short to summarize,
\* fetch rejects or answers with an error status, the completion is absent,
\* is no JSON text, or is the JSON text of null
ServiceFails ==
    \/ call[1].key = ""
    \/ Calls("summarizeArticle") /\ Len(call[1].content) < 50
    \/ response.status \notin 200..299
    \/ response.content \in {None, Some("")}
    \/ JSONparse(response.content[1]) \in {None, Some(JNull)}

\* the value is the empty string, the empty array or the empty object
IsEmpty(v) ==
    \/ v.type = "string" /\ v.value = ""
    \/ v.type = "array" /\ v.items = <<>>
    \/ v.type = "object" /\ v.members = <<>>

\* C30: smartScrape, summarizeArticle, analyzeForUPSC and
\* generateAnswerFromNotes throw nothing: when the call fails, the result
\* they return has its error field set and its other fields empty
\* (smartScrape: title 'Error', content '', contentBlocks []), and when the
\* call succeeds the result has no error field.
C30_ServicesNeverReject ==
    /\ (call # None /\ call[1].fn \in Services /\ outcome # None) =>
          /\ HasReturned
          /\ ServiceFails =>
                /\ outcome[1].value.error # None
                /\ \A f \in DOMAIN outcome[1].value \ {"error"} : IsEmpty(outcome[1].value[f])
          /\ ~ServiceFails => outcome[1].value.error = None
    /\ (screen = "smartScrape" /\ hpc = "returned") =>
          /\ article # None
          /\ ~Ok(response) =>
                /\ article[1].error # None
                /\ article[1].title = "Error"
                /\ article[1].content = ""
                /\ article[1].contentBlocks = <<>>
          /\ Ok(response) => article[1].error = None
    /\ (screen = "smartScrape" /\ article # None) => hpc = "returned"

C30_Witness ==
    /\ Calls("analyzeForUPSC")
    /\ response.content = Some("Here is the summary you asked for.")
    /\ outcome # None
    /\ outcome[1].value.error = Some("JSON Parse error")
    /\ outcome[1].value.summary = JString("")

(***************************************************************************)
(* Properties of repeated calls                                            *)
(***************************************************************************)
\* C22: a call of parseMCQResponse, or of extractMainContent followed by
\* parseHtmlToBlocks, gives the result that every earlier call with the same
\* argument has given, whatever calls of the two were made in between: no
\* call sees what an earlier call has left behind.
C22_SameInputSameOutput ==
    /\ \A p, q \in returned :
          (p.fn = q.fn /\ p.argument = q.argument) => p.result = q.result
    /\ pc = "done" =>
          \A p \in returned :
              (p.fn = "parseMCQResponse" /\ p.argument = content) => p.result = mcqs
    /\ hpc = "done" =>
          \A p \in returned :
              (p.fn = "parseHtmlToBlocks" /\ p.argument = html) => p.result = blocks

\* the third call has the argument of the first, the second has another one
C22_Witness ==
    /\ pc = "done"
    /\ Len(mcqs) = 1
    /\ \E p, q \in returned :
          /\ p.fn = "parseMCQResponse" /\ p.n = 1 /\ p.argument = content
          /\ q.fn = "parseMCQResponse" /\ q.n = 2 /\ Len(q.result) = 2

(***************************************************************************)
(* GET of the mobile articles route (admin panel): the query parameters    *)
(* become a list of conditions, the page query and the count query run     *)
(* with their conjunction, and the answer is written.  The table is that   *)
(* of the database; its rows carry the columns the handler reads.  Times   *)
(* are whole hours since 1970-01-01T00:00Z.                                *)
(***************************************************************************)
\* searchParams.get(name) is null (None) for a parameter that is absent
Supplied(p) == p # None /\ p[1] # ""

\* parseInt(searchParams.get(name) || fallback): None where it is NaN
IntParam(p, fallback) ==
    IF ~Supplied(p) THEN Some(fallback)
    ELSE IF SkipDigits(p[1], 1) = 1 THEN None
    ELSE Some(parseInt(SubSeq(p[1], 1, SkipDigits(p[1], 1) - 1)))

DefaultPage == 1
DefaultLimit == 20

sourceMap ==
    [TH |-> "The Hindu", ET |-> "The Economic Times", PIB |-> "Press Information Bureau"]

\* names that every object literal answers to through Object.prototype
InheritedKeys == {"constructor", "toString"}

\* sourceMap[source]: undefined (None) for a name it does not know; for an
\* inherited name a function, here the text a driver writes for it
SourceLookup(source) ==
    IF source \in DOMAIN sourceMap THEN Some(sourceMap[source])
    ELSE IF source \in InheritedKeys THEN Some("function () { [native code] }")
    ELSE None

Eq(column, value) == [column |-> column, op |-> "eq", value |-> value]
\* and(gte(articles.publishedDate, startDate), lte(articles.publishedDate, endDate))
Between(from, to) == [column |-> "publishedDate", op |-> "between", from |-> from, to |-> to]

\* new Date(dateParam) for the date texts of the requests: the hour of
\* midnight UTC of an ISO date, None for an Invalid Date
DateOf(text) ==
    IF text = "1970-01-02" THEN Some(24)
    ELSE IF text = "1970-01-03" THEN Some(48)
    ELSE None

\* setHours(0, 0, 0, 0) works in the local time of the server, tz hours
\* ahead of UTC
StartOfLocalDay(t, tz) == 24 * ((t + tz) \div 24) - tz
\* setHours(23, 59, 59, 999): the last hour of that day
EndOfLocalDay(t, tz) == StartOfLocalDay(t, tz) + 23

DateCondition(text, tz) ==
    IF DateOf(text) = None THEN Between(None, None)
    ELSE Between(Some(StartOfLocalDay(DateOf(text)[1], tz)),
                 Some(EndOfLocalDay(DateOf(text)[1], tz)))

SourceConditions(source, gsPaper) ==
    IF Supplied(source) /\ SourceLookup(source[1]) # None
    THEN <<Eq("gsPaper", SourceLookup(source[1])[1])>>
    ELSE IF Supplied(gsPaper) THEN <<Eq("gsPaper", gsPaper[1])>>
    ELSE <<>>

\* variant: the list of conditions begins empty
UnguardedConditions(req) ==
    SourceConditions(req.source, req.gsPaper)
        \o (IF Supplied(req.subject) THEN <<Eq("subject", req.subject[1])>> ELSE <<>>)
        \o (IF Supplied(req.date) THEN <<DateCondition(req.date[1], req.tz)>> ELSE <<>>)
\* lines 28-64: conditions when whereClause is made of it
BuildConditions(req) ==
    <<Eq("isPublished", TRUE)>>
        \o SourceConditions(req.source, req.gsPaper)
        \o (IF Supplied(req.subject) THEN <<Eq("subject", req.subject[1])>> ELSE <<>>)
        \o (IF Supplied(req.date) THEN <<DateCondition(req.date[1], req.tz)>> ELSE <<>>)

Matches(row, c) ==
    IF c.op = "eq" THEN row[c.column] = c.value
    ELSE row.publishedDate >= c.from[1] /\ row.publishedDate <= c.to[1]

\* the rows that and(...conditions) lets through
Where(rows, conds) == {r \in rows : \A n \in DOMAIN conds : Matches(r, conds[n])}

\* an Invalid Date cannot be written into the query
Unwritable(conds) == \E n \in DOMAIN conds : conds[n].op = "between" /\ conds[n].from = None

\* .orderBy(desc(articles.createdAt))
RECURSIVE OrderByCreatedAtDesc(_)
OrderByCreatedAtDesc(rows) ==
    IF rows = {} THEN <<>>
    ELSE LET first == CHOOSE r \in rows : \A o \in rows : o.createdAt <= r.createdAt
         IN  <<first>> \o OrderByCreatedAtDesc(rows \ {first})

\* .limit(limit).offset(offset)
LimitOffset(rows, limit, offset) ==
    [n \in 1..Max({0, Min({limit, Len(rows) - offset})}) |-> rows[offset + n]]

\* the columns of the select: isPublished is not among them
Columns(r) ==
    [id |-> r.id, gsPaper |-> r.gsPaper, subject |-> r.subject,
     publishedDate |-> r.publishedDate, createdAt |-> r.createdAt]

pageOf(req) == IntParam(req.page, DefaultPage)
limitOf(req) == IntParam(req.limit, DefaultLimit)
offsetOf(req) == (pageOf(req)[1] - 1) * limitOf(req)[1]

\* LIMIT and OFFSET that the database refuses: NaN, or a negative number
Unusable(req) ==
    \/ pageOf(req) = None
    \/ limitOf(req) = None
    \/ limitOf(req)[1] < 0
    \/ offsetOf(req) < 0

PageQuery(req, conds) ==
    LET rows == OrderByCreatedAtDesc(Where(table, conds))
        page0 == LimitOffset(rows, limitOf(req)[1], offsetOf(req))
    IN  [n \in 1..Len(page0) |-> Columns(page0[n])]

\* db.select({ count: count() }).from(articles).where(whereClause)
CountQuery(conds) == Cardinality(Where(table, conds))

\* Math.ceil(total / limit), limit > 0
Ceil(total, limit) == (total + limit - 1) \div limit

ArticlesReply(req, total) ==
    [ status |-> 200, articles |-> publishedArticles,
      pagination |-> [ page |-> pageOf(req)[1], limit |-> limitOf(req)[1], total |-> total,
                       totalPages |-> IF limitOf(req)[1] = 0 THEN None
                                      ELSE Some(Ceil(total, limitOf(req)[1])) ] ]

InternalServerError == [status |-> 500, error |-> "Internal server error"]

Requested == call # None /\ call[1].fn = "GET"

\* lines 20-84: the parameters are read, conditions is filled and the page
\* query is sent
GetSendsPageQuery ==
    /\ Requested
    /\ gpc = "idle"
    /\ conditions' = BuildConditions(call[1])
    /\ gpc' = "page query"
    /\ UNCHANGED <<mcqVars, htmlVars, response, outcome, uiVars, article, screenVars,
                   call, truncatedContent, returned, table, publishedArticles, reply>>

\* the page query has given its rows; the count query is sent (line 86)
GetSendsCountQuery ==
    /\ gpc = "page query"
    /\ ~Unusable(call[1])
    /\ ~Unwritable(conditions)
    /\ publishedArticles' = PageQuery(call[1], conditions)
    /\ gpc' = "count query"
    /\ UNCHANGED <<mcqVars, htmlVars, response, outcome, uiVars, article, screenVars,
                   call, truncatedContent, returned, table, conditions, reply>>

\* lines 88-96: the count is there
GetReplies ==
    /\ gpc = "count query"
    /\ reply' = Some(ArticlesReply(call[1], CountQuery(conditions)))
    /\ gpc' = "replied"
    /\ UNCHANGED <<mcqVars, htmlVars, response, outcome, uiVars, article, screenVars,
                   call, truncatedContent, returned, table, conditions, publishedArticles>>

\* lines 97-100: one of the two queries has rejected (the database refuses
\* the query, or cannot be reached)
GetCatches ==
    /\ gpc \in {"page query", "count query"}
    /\ reply' = Some(InternalServerError)
    /\ gpc' = "replied"
    /\ UNCHANGED <<mcqVars, htmlVars, response, outcome, uiVars, article, screenVars,
                   call, truncatedContent, returned, table, conditions, publishedArticles>>

NextArticles == GetSendsPageQuery \/ GetSendsCountQuery \/ GetReplies \/ GetCatches

ArticleRows ==
    { [id |-> 1, gsPaper |-> "The Hindu", subject |-> "Polity", publishedDate |-> 30,
       createdAt |-> 5],
      [id |-> 2, gsPaper |-> "The Hindu", subject |-> "Polity", publishedDate |-> 31,
       createdAt |-> 4],
      [id |-> 3, gsPaper |-> "GS2", subject |-> "Economy", publishedDate |-> 26,
       createdAt |-> 3],
      [id |-> 4, gsPaper |-> "GS2", subject |-> "Polity", publishedDate |-> 50,
       createdAt |-> 2] }

\* the table with the articles of ids published, the others not
TableOf(ids) ==
    { [id |-> r.id, isPublished |-> r.id \in ids, gsPaper |-> r.gsPaper, subject |-> r.subject,
       publishedDate |-> r.publishedDate, createdAt |-> r.createdAt] : r \in ArticleRows }

Tables == {TableOf(ids) : ids \in {{}, {1, 3}, {2, 4}, {1, 2, 3, 4}}}

Requests ==
    [ fn      : {"GET"},
      page    : {None, Some("2"), Some("0")},
      limit   : {None, Some("1"), Some("all")},
      source  : {None, Some("TH"), Some("th"), Some("constructor")},
      gsPaper : {None, Some("GS2")},
      subject : {None, Some("Polity")},
      date    : {None, Some("1970-01-02"), Some("today")},
      tz      : {0, -5} ]

InitArticles ==
    /\ call \in {Some(req) : req \in Requests}
    /\ table \in Tables
    /\ conditions = <<>>
    /\ publishedArticles = <<>>
    /\ reply = None
    /\ gpc = "idle"
    /\ truncatedContent = None
    /\ returned = {}
    /\ response = None
    /\ outcome = None
    /\ article = None
    /\ screen = "none"
    /\ runs = <<>>
    /\ selectedAnswers = <<>>
    /\ showResults = <<>>
    /\ stage = "idle"
    /\ errorMessage = ""
    /\ progress = 0
    /\ statusMessage = ""
    /\ screenMcqs = <<>>
    /\ isLoading = FALSE
    /\ error = ""
    /\ entries = <<>>
    /\ content = ""
    /\ parts = <<>>
    /\ i = 0
    /\ mcqs = <<>>
    /\ kept = <<>>
    /\ pc = "idle"
    /\ page = <<>>
    /\ html = ""
    /\ mainContent = ""
    /\ rp = 0
    /\ cleanHtml = ""
    /\ ph = 0
    /\ blocks = <<>>
    /\ hpc = "idle"

SpecArticles == InitArticles /\ [][NextArticles]_vars

(***************************************************************************)
(* Properties of the options and of the stem                               *)
(***************************************************************************)
\* the entry of the input that record j was made from
EntryOfRecord(j) == entries[kept[j]]

\* the four option lines stand in the entry, each with a text
FourOptionLines(e) ==
    /\ e.a # None /\ e.a[1] # ""
    /\ e.b # None /\ e.b[1] # ""
    /\ e.c # None /\ e.c[1] # ""
    /\ e.d # None /\ e.d[1] # ""

\* C23: for a segment whose lines "A.", "B.", "C.", "D." each start a line
\* of their own in that order, option L of the record is the trimmed text
\* that follows "L." on that line; no character of the stem or of another
\* option (the "a." that ends "India.") becomes part of it.
C23_OptionIsOwnLine ==
    pc = "done" =>
        \A j \in DOMAIN mcqs :
            FourOptionLines(EntryOfRecord(j)) =>
                /\ mcqs[j].optionA = Trim(EntryOfRecord(j).a[1])
                /\ mcqs[j].optionB = Trim(EntryOfRecord(j).b[1])
                /\ mcqs[j].optionC = Trim(EntryOfRecord(j).c[1])
                /\ mcqs[j].optionD = Trim(EntryOfRecord(j).d[1])

(***************************************************************************)
(* Completions whose entry begins with a line of the form of option A      *)
(***************************************************************************)
StemEntries ==
    [ n    : {1, 2},
      stem : { "A. The river Nile is long", "a. Nile?", "Why so?",
               "Which river is the longest river?" },
      a    : {Some("Nile")},
      b    : {Some("Amazon")},
      c    : {Some("Ganga")},
      d    : {None, Some("Indus")},
      ans  : {None, Some("B")},
      expl : {None, Some("It is the longest.")} ]

StemInputs == {<<e>> : e \in StemEntries}

InitStem ==
    /\ entries \in StemInputs
    /\ content = RenderAll(entries)
    /\ parts = <<>>
    /\ i = 0
    /\ mcqs = <<>>
    /\ kept = <<>>
    /\ pc = "start"
    /\ page = <<>>
    /\ html = ""
    /\ mainContent = ""
    /\ rp = 0
    /\ cleanHtml = ""
    /\ ph = 0
    /\ blocks = <<>>
    /\ hpc = "idle"
    /\ NoCaller

SpecStem == InitStem /\ [][Next]_vars

\* the starts of the lines of s that begin, after optional whitespace, with "A."
OptionALines(s) ==
    {k \in 1..Len(s) : /\ k = 1 \/ Ch(s, k - 1) = "\n"
                       /\ MatchCI(s, SkipWs(s, k), "A.")}

\* the segment that record j was made from
SegmentOfRecord(j) == parts[2 * kept[j] + 1]

TextBefore(s, k) == IF k = 1 THEN "" ELSE Trim(SubSeq(s, 1, k - 1))

\* C24: the stem of a record is the trimmed text of its segment before the
\* first line that begins, after optional whitespace and in either letter
\* case, with "A."; a segment without such a line, or with a stem of fewer
\* than 10 characters, gives no record, so every record's stem has at least
\* 10 characters.
C24_StemBeforeFirstOptionLine ==
    pc = "done" =>
        \A j \in DOMAIN mcqs :
            /\ OptionALines(SegmentOfRecord(j)) # {}
            /\ mcqs[j].question =
                  TextBefore(SegmentOfRecord(j), Min(OptionALines(SegmentOfRecord(j))))
            /\ Len(mcqs[j].question) >= MinQuestionLength

(***************************************************************************)
(* Properties of the screens                                               *)
(***************************************************************************)
\* a call of startProcess has not come to its end
InFlight == \E r \in DOMAIN runs : runs[r] # "ended"

\* C25: after handleReset during a run of startProcess (Cancel of the
\* loading screen) the screen stays in stage 'idle' with no records until
\* startProcess is called again: what the abandoned run does when its file
\* pick, file read or request ends changes none of stage, mcqs, progress,
\* statusMessage and errorMessage.
C25_CancelledRunIsSilent ==
    [][(/\ screen = "PDFGeneratorScreen"
        /\ stage = "idle"
        /\ screenMcqs = <<>>
        /\ InFlight
        /\ Len(runs') = Len(runs))
          => UNCHANGED <<stage, screenMcqs, progress, statusMessage, errorMessage>>]_vars

\* C26: in every state of PDFGeneratorScreen, stage 'complete' has records
\* on the screen and stage 'error' has none.
C26_StageAgreesWithRecords ==
    screen = "PDFGeneratorScreen" =>
        /\ stage = "complete" => screenMcqs # <<>>
        /\ stage = "error" => screenMcqs = <<>>

\* both maps are empty after the step
MapsCleared == selectedAnswers' = <<>> /\ showResults' = <<>>

\* every card of the list shows its result
AllRevealed == \A n \in DOMAIN screenMcqs : Revealed(screenMcqs[n].id)

\* C27: once an option is selected for a question, a later selection for
\* the same question (handleOptionSelect, handleSelectAnswer) leaves
\* selectedAnswers and showResults as they are; the recorded answer changes
\* only in a step that clears both maps (handleReset, a new run).
C27_AnswerIsFinal ==
    [][/\ \A id \in DOMAIN showResults :
              Revealed(id) =>
                  \/ MapsCleared
                  \/ /\ id \in DOMAIN selectedAnswers' /\ id \in DOMAIN showResults'
                     /\ selectedAnswers'[id] = selectedAnswers[id]
                     /\ showResults'[id]
       /\ ((HandleOptionSelect \/ HandleSelectAnswer) /\ AllRevealed) => UNCHANGED answerVars
      ]_vars

\* the only question of the list is answered with B, which is not its
\* correct answer; every further selection is one for the same question
C27_Witness ==
    /\ screen \in {"PDFGeneratorScreen", "AIMCQGeneratorScreen"}
    /\ Len(screenMcqs) = 1
    /\ Revealed(screenMcqs[1].id)
    /\ Selected(screenMcqs[1].id) = Some("B")
    /\ getScore = [correct |-> 0, answered |-> 1]

\* what the card n of the list shows: the selected option and the revealed flag
CardView(n) == <<Selected(screenMcqs[n].id), Revealed(screenMcqs[n].id)>>

\* C28: a selection on one card changes the selected answer and the
\* revealed flag of that card only, and getScore counts a question as
\* answered only if an option was selected on it, also when two records of
\* the list carry the same id.
C28_OnlyThatQuestion ==
    [][(/\ screenMcqs' = screenMcqs
        /\ answerVars' # answerVars)
          => /\ Cardinality({n \in DOMAIN screenMcqs : CardView(n)' # CardView(n)}) = 1
             /\ getScore'.answered = getScore.answered + 1]_vars

(***************************************************************************)
(* Properties of the mobile articles route                                 *)
(***************************************************************************)
\* the row of the table that an article of the answer was read from
RowOf(a) == CHOOSE r \in table : r.id = a.id

HasCondition(column, value) ==
    \E n \in DOMAIN conditions : conditions[n].column = column /\ conditions[n].value = value

\* the window of the date parameter, as the handler computes it
InDateWindow(r, req) ==
    /\ DateOf(req.date[1]) # None
    /\ r.publishedDate >= StartOfLocalDay(DateOf(req.date[1])[1], req.tz)
    /\ r.publishedDate <= EndOfLocalDay(DateOf(req.date[1])[1], req.tz)

KnownSource(req) == Supplied(req.source) /\ req.source[1] \in DOMAIN sourceMap

\* the rows a request asks for: published, and through every filter supplied
Asked(r, req) ==
    /\ r.isPublished
    /\ Supplied(req.subject) => r.subject = req.subject[1]
    /\ Supplied(req.date) => InDateWindow(r, req)
    /\ KnownSource(req) => r.gsPaper = sourceMap[req.source[1]]
    /\ (~KnownSource(req) /\ Supplied(req.gsPaper)) => r.gsPaper = req.gsPaper[1]

====
